---- MODULE Spec2Model ----
(***************************************************************************)
(* A model of the cpp-dsa-library: the singly linked list, the binary      *)
(* search tree and the six sorting routines of include/dsa.                *)
(*                                                                         *)
(* The linked list and the tree live in an explicit heap: a node is an     *)
(* address with its fields, `new` takes the lowest free address, `delete`  *)
(* returns it.  Every pointer dereference of the code is a dereference of  *)
(* the model, and one that hits null or a deleted node raises a fault.     *)
(***************************************************************************)
EXTENDS Integers, Sequences, FiniteSets, TLC

\* ------------------------------------------------------------------ bounds
\* Most nodes the api actions keep allocated at a time, over both objects.
MaxNodes == 4
\* Element values the api actions draw from: 1..MaxVal.
MaxVal == 2
\* Values a tree is given: 1..MaxTVal.
MaxTVal == 5
\* The trees isValid() is asked about: every shape of up to MaxShapeNodes
\* nodes, with values 1..MaxShapeVal in any arrangement.
MaxShapeNodes == 3
MaxShapeVal == 3
\* Where a second tree is made from the first: the values are
\* 1..MaxCopyNodes, and as many nodes are allocated at a time.
MaxCopyNodes == 3
\* Longest vector the sorting routines are given, and its keys: 1..MaxKey.
MaxSortLen == 4
MaxKey == 3
\* Bits of a size_t in the model (the code's has 64): n - 1 wraps to
\* 2^SizeBits - 1 when n is 0.  Every vector is shorter than 2^SizeBits.
SizeBits == 4
SizeMod == 2 ^ SizeBits

Max(a, b) == IF a >= b THEN a ELSE b
Min(a, b) == IF a <= b THEN a ELSE b

\* ============================================================ LinkedList
\* examples/main.cpp, demoLinkedList: the initializer list and the three
\* insertions that follow it.
DemoInit == <<10, 20, 30, 40, 50>>
DemoFront == 5
DemoBack == 60
DemoIndex == 3
DemoValue == 25

Null == 0
\* The value a pointer is left with when the node it points to is deleted.
Dangling == -1
NoVal == 0
Values == 1..MaxVal
Objects == {"a", "b"}

VARIABLES
    mode,      \* "api": any call in any order; "demo": the calls of demoLinkedList
    pc,        \* position in the demo
    data,      \* Node::data of every allocated node
    next,      \* Node::next of every allocated node
    head_,     \* LinkedList::head_ of each object
    tail_,     \* LinkedList::tail_ of each object
    size_,     \* LinkedList::size_ of each object
    exists,    \* the objects constructed and not destroyed
    fault,     \* a null or deleted node was dereferenced, or deleted again
    abs,       \* ghost: the abstract sequence of each object
    net,       \* ghost: successful insertions minus successful removals
    last       \* ghost: the last call and whether it raised

lvars == <<mode, pc, data, next, head_, tail_, size_, exists, fault,
           abs, net, last>>

\* The trees.
VARIABLES
    tdata,     \* Node::data of every allocated node
    tleft,     \* Node::left
    tright,    \* Node::right
    root_,     \* root_ of each tree object
    tsize_,    \* size_ of each tree object
    texists,   \* the objects constructed and not yet destroyed
    tfault,    \* "none", or what a call with undefined behaviour led to
    tlast,     \* the last call and the case it met
    tabs       \* ghost: of each tree, the values inserted and not since removed
               \* (kept where the calls are on one tree)

tvars == <<tdata, tleft, tright, root_, tsize_, texists, tfault, tlast, tabs>>

\* A call of a sorting routine.
VARIABLES
    sphase,    \* "input": a vector and a comparator are given; "done": the
               \* call has returned; "crashed": it has not, and will not
    salgo,     \* the routine called
    scomp,     \* the comparator: "less" is std::less, "greater" std::greater
    sin,       \* the vector before the call; each element carries its key,
               \* which the comparator reads, and the index it started at
    sout,      \* the vector after the call
    sfault,    \* the call read or wrote an element outside the vector
    sloc       \* of a call of detail::partition, its low and high and the
               \* index it returned; of a heapSort in progress, its i

svars == <<sphase, salgo, scomp, sin, sout, sfault, sloc>>

vars == <<lvars, tvars, svars>>

\* The list state as one value, threaded through the calls of one operation.
\* The allocated nodes are the domain of data and next.
World ==
    [data |-> data, next |-> next, head |-> head_, tail |-> tail_,
     size |-> size_, fault |-> fault, threw |-> FALSE, ret |-> NoVal]

Live(w) == DOMAIN w.next
Fuel(w) == Cardinality(Live(w)) + 1
Flt(w) == [w EXCEPT !.fault = TRUE]
\* p cannot be dereferenced: it is null, or its node was deleted.
Bad(w, p) == p \notin Live(w)

\* new Node(value): the lowest free address, data(value), next(nullptr).
Alloc(w) ==
    CHOOSE p \in 1..(Cardinality(Live(w)) + 1) :
        p \notin Live(w) /\ \A q \in 1..(p - 1) : q \in Live(w)
new_Node(w, p, value) ==
    [w EXCEPT !.data = [q \in Live(w) \cup {p} |-> IF q = p THEN value ELSE w.data[q]],
              !.next = [q \in Live(w) \cup {p} |-> IF q = p THEN Null ELSE w.next[q]]]

\* delete p: the node is gone, and every pointer that still holds p is
\* invalid from here on.
delete_Node(w, p) ==
    IF Bad(w, p) THEN Flt(w)
    ELSE LET inv(q) == IF q = p THEN Dangling ELSE q
         IN  [w EXCEPT !.data = [q \in Live(w) \ {p} |-> w.data[q]],
                       !.next = [q \in Live(w) \ {p} |-> inv(w.next[q])],
                       !.head = [x \in Objects |-> inv(w.head[x])],
                       !.tail = [x \in Objects |-> inv(w.tail[x])]]

empty(w, x) == w.size[x] = 0

\* LinkedList() : head_(nullptr), tail_(nullptr), size_(0)
LinkedList(w, x) ==
    [w EXCEPT !.head[x] = Null, !.tail[x] = Null, !.size[x] = 0]

push_front(w, x, value) ==
    LET p  == Alloc(w)
        w1 == new_Node(w, p, value)
        w2 == [w1 EXCEPT !.next[p] = w1.head[x]]
        w3 == [w2 EXCEPT !.head[x] = p]
        w4 == IF w3.tail[x] = Null THEN [w3 EXCEPT !.tail[x] = w3.head[x]]
              ELSE w3
    IN  [w4 EXCEPT !.size[x] = @ + 1]

push_back(w, x, value) ==
    LET p  == Alloc(w)
        w1 == new_Node(w, p, value)
        w2 == IF w1.tail[x] # Null
              THEN IF Bad(w1, w1.tail[x]) THEN Flt(w1)
                   ELSE [w1 EXCEPT !.next[w1.tail[x]] = p, !.tail[x] = p]
              ELSE [w1 EXCEPT !.head[x] = p, !.tail[x] = p]
    IN  IF w2.fault THEN w2 ELSE [w2 EXCEPT !.size[x] = @ + 1]

pop_front_NoTailReset(w, x) ==
    IF empty(w, x) THEN [w EXCEPT !.threw = TRUE]
    ELSE IF Bad(w, w.head[x]) THEN Flt(w)
    ELSE LET temp == w.head[x]
             w1 == [w EXCEPT !.head[x] = w.next[temp]]
             w2 == delete_Node(w1, temp)
         IN  [w2 EXCEPT !.size[x] = @ - 1]

pop_front(w, x) ==
    IF empty(w, x) THEN [w EXCEPT !.threw = TRUE]
    ELSE IF Bad(w, w.head[x]) THEN Flt(w)
    ELSE LET temp == w.head[x]
             w1 == [w EXCEPT !.head[x] = w.next[temp]]
             w2 == delete_Node(w1, temp)
             w3 == [w2 EXCEPT !.size[x] = @ - 1]
         IN  IF empty(w3, x) THEN [w3 EXCEPT !.tail[x] = Null] ELSE w3

\* while (curr->next != tail_) curr = curr->next;  Null: a bad dereference,
\* or a walk that does not end.
RECURSIVE WalkToTail(_, _, _, _)
WalkToTail(w, x, curr, fuel) ==
    IF fuel = 0 \/ Bad(w, curr) THEN Null
    ELSE IF w.next[curr] = w.tail[x] THEN curr
    ELSE WalkToTail(w, x, w.next[curr], fuel - 1)

pop_back(w, x) ==
    IF empty(w, x) THEN [w EXCEPT !.threw = TRUE]
    ELSE IF w.size[x] = 1
    THEN LET w1 == delete_Node(w, w.head[x])
             w2 == [w1 EXCEPT !.head[x] = Null, !.tail[x] = Null]
         IN  [w2 EXCEPT !.size[x] = @ - 1]
    ELSE LET curr == WalkToTail(w, x, w.head[x], Fuel(w))
         IN  IF curr = Null THEN Flt(w)
             ELSE LET w1 == delete_Node(w, w.tail[x])
                      w2 == [w1 EXCEPT !.tail[x] = curr]
                      w3 == IF Bad(w2, curr) THEN Flt(w2)
                            ELSE [w2 EXCEPT !.next[curr] = Null]
                  IN  [w3 EXCEPT !.size[x] = @ - 1]

\* for (size_t i = 0; i < n; ++i) curr = curr->next;  Null: a bad dereference.
RECURSIVE Advance(_, _, _)
Advance(w, curr, n) ==
    IF n = 0 THEN curr
    ELSE IF Bad(w, curr) THEN Null
    ELSE Advance(w, w.next[curr], n - 1)

\* Node* newNode = new Node(value); newNode->next = curr->next;
\* curr->next = newNode; ++size_;
link_after(w, x, curr, value) ==
    IF Bad(w, curr) THEN Flt(w)
    ELSE LET p  == Alloc(w)
             w1 == new_Node(w, p, value)
             w2 == [w1 EXCEPT !.next[p] = w1.next[curr]]
             w3 == [w2 EXCEPT !.next[curr] = p]
         IN  [w3 EXCEPT !.size[x] = @ + 1]

insert_OffByOne(w, x, index, value) ==
    IF index > w.size[x] THEN [w EXCEPT !.threw = TRUE]
    ELSE IF index = 0 THEN push_front(w, x, value)
    ELSE IF index = w.size[x] THEN push_back(w, x, value)
    ELSE link_after(w, x, Advance(w, w.head[x], index), value)

insert_ThrowsAtSize(w, x, index, value) ==
    IF index >= w.size[x] /\ index # 0 THEN [w EXCEPT !.threw = TRUE]
    ELSE IF index = 0 THEN push_front(w, x, value)
    ELSE link_after(w, x, Advance(w, w.head[x], index - 1), value)

insert(w, x, index, value) ==
    IF index > w.size[x] THEN [w EXCEPT !.threw = TRUE]
    ELSE IF index = 0 THEN push_front(w, x, value)
    ELSE IF index = w.size[x] THEN push_back(w, x, value)
    ELSE link_after(w, x, Advance(w, w.head[x], index - 1), value)

\* Node* toDelete = curr->next; curr->next = toDelete->next;
\* if (toDelete == tail_) tail_ = curr; delete toDelete; --size_;
unlink_after(w, x, curr) ==
    IF Bad(w, curr) \/ Bad(w, w.next[curr]) THEN Flt(w)
    ELSE LET toDelete == w.next[curr]
             w1 == [w EXCEPT !.next[curr] = w.next[toDelete]]
             w2 == IF toDelete = w1.tail[x]
                   THEN [w1 EXCEPT !.tail[x] = curr] ELSE w1
             w3 == delete_Node(w2, toDelete)
         IN  [w3 EXCEPT !.size[x] = @ - 1]

erase_CountsFirst(w, x, index) ==
    IF index >= w.size[x]
    THEN [w EXCEPT !.threw = TRUE,
                   !.size[x] = IF @ > 0 THEN @ - 1 ELSE @]
    ELSE IF index = 0 THEN pop_front(w, x)
    ELSE unlink_after(w, x, Advance(w, w.head[x], index - 1))

erase(w, x, index) ==
    IF index >= w.size[x] THEN [w EXCEPT !.threw = TRUE]
    ELSE IF index = 0 THEN pop_front(w, x)
    ELSE unlink_after(w, x, Advance(w, w.head[x], index - 1))

\* while (!empty()) pop_front();
RECURSIVE clearLoop(_, _, _)
clearLoop(w, x, fuel) ==
    IF empty(w, x) \/ w.fault THEN w
    ELSE IF fuel = 0 THEN Flt(w)
    ELSE clearLoop(pop_front(w, x), x, fuel - 1)

clear(w, x) == clearLoop(w, x, Fuel(w))

\* The loop of reverse(): (prev, curr) after it, with the links turned.
RECURSIVE reverseLoop(_, _, _, _)
reverseLoop(w, prev, curr, fuel) ==
    IF curr = Null THEN [w |-> w, prev |-> prev]
    ELSE IF fuel = 0 \/ Bad(w, curr) THEN [w |-> Flt(w), prev |-> prev]
    ELSE LET nxt == w.next[curr]
         IN  reverseLoop([w EXCEPT !.next[curr] = prev], curr, nxt, fuel - 1)

\* A reverse that leaves tail_ where it was.
reverse_KeepsTail(w, x) ==
    LET r == reverseLoop(w, Null, w.head[x], Fuel(w))
    IN  [r.w EXCEPT !.head[x] = r.prev]

reverse(w, x) ==
    LET w1 == [w EXCEPT !.tail[x] = w.head[x]]
        r  == reverseLoop(w1, Null, w1.head[x], Fuel(w))
    IN  [r.w EXCEPT !.head[x] = r.prev]

\* for (Node* curr = other.head_; curr; curr = curr->next) push_back(curr->data);
RECURSIVE copyLoop(_, _, _, _)
copyLoop(w, x, curr, fuel) ==
    IF curr = Null \/ w.fault THEN w
    ELSE IF fuel = 0 \/ Bad(w, curr) THEN Flt(w)
    ELSE copyLoop(push_back(w, x, w.data[curr]), x, w.next[curr], fuel - 1)

copy_ctor_Shallow(w, x, other) ==
    [w EXCEPT !.head[x] = w.head[other], !.tail[x] = w.tail[other],
              !.size[x] = w.size[other]]

copy_ctor(w, x, other) ==
    copyLoop(LinkedList(w, x), x, w.head[other], Fuel(w))

move_ctor(w, x, other) ==
    LET w1 == [w EXCEPT !.head[x] = w.head[other], !.tail[x] = w.tail[other],
                        !.size[x] = w.size[other]]
    IN  [w1 EXCEPT !.head[other] = Null, !.tail[other] = Null,
                   !.size[other] = 0]

copy_assign(w, x, other) ==
    IF x # other
    THEN LET w1 == clear(w, x)
         IN  copyLoop(w1, x, w1.head[other], Fuel(w1))
    ELSE w

\* A move assignment that takes the source's chain without releasing its own.
move_assign_NoClear(w, x, other) ==
    IF x # other
    THEN LET w2 == [w EXCEPT !.head[x] = w.head[other],
                             !.tail[x] = w.tail[other],
                             !.size[x] = w.size[other]]
         IN  [w2 EXCEPT !.head[other] = Null, !.tail[other] = Null,
                        !.size[other] = 0]
    ELSE w

move_assign(w, x, other) ==
    IF x # other
    THEN LET w1 == clear(w, x)
             w2 == [w1 EXCEPT !.head[x] = w1.head[other],
                              !.tail[x] = w1.tail[other],
                              !.size[x] = w1.size[other]]
         IN  [w2 EXCEPT !.head[other] = Null, !.tail[other] = Null,
                        !.size[other] = 0]
    ELSE w

\* ~LinkedList() { clear(); }
dtor(w, x) == clear(w, x)

front(w, x) ==
    IF empty(w, x) THEN [w EXCEPT !.threw = TRUE]
    ELSE IF Bad(w, w.head[x]) THEN Flt(w)
    ELSE [w EXCEPT !.ret = w.data[w.head[x]]]

back(w, x) ==
    IF empty(w, x) THEN [w EXCEPT !.threw = TRUE]
    ELSE IF Bad(w, w.tail[x]) THEN Flt(w)
    ELSE [w EXCEPT !.ret = w.data[w.tail[x]]]

at(w, x, index) ==
    IF index >= w.size[x] THEN [w EXCEPT !.threw = TRUE]
    ELSE LET curr == Advance(w, w.head[x], index)
         IN  IF Bad(w, curr) THEN Flt(w)
             ELSE [w EXCEPT !.ret = w.data[curr]]

\* ------------------------------------------------------------ observation
\* The nodes from p along next, at most fuel of them: a chain of more nodes
\* than are allocated has come back to a node it already holds.
RECURSIVE Chain(_, _, _)
Chain(nx, p, fuel) ==
    IF p \notin DOMAIN nx \/ fuel = 0 THEN <<>>
    ELSE <<p>> \o Chain(nx, nx[p], fuel - 1)

Range(s) == {s[i] : i \in 1..Len(s)}
ChainIn(w, x) == Chain(w.next, w.head[x], Fuel(w))
\* begin() .. end(): *it of each node from head_.
ContentsIn(w, x) == [i \in 1..Len(ChainIn(w, x)) |-> w.data[ChainIn(w, x)[i]]]
\* The chain ends at a null link, not at a deleted node or in a cycle.
EndsIn(w, x) ==
    LET c == ChainIn(w, x)
    IN  IF c = <<>> THEN w.head[x] = Null
        ELSE Len(c) <= Cardinality(Live(w)) /\ w.next[c[Len(c)]] = Null

ChainOf(x) == ChainIn(World, x)
NodesOf(x) == Range(ChainOf(x))
Contents(x) == ContentsIn(World, x)

\* -------------------------------------------------- the abstract sequence
AbsInsert(s, i, v) ==
    IF i <= Len(s) THEN SubSeq(s, 1, i) \o <<v>> \o SubSeq(s, i + 1, Len(s))
    ELSE s
AbsErase(s, i) ==
    IF i < Len(s) THEN SubSeq(s, 1, i) \o SubSeq(s, i + 2, Len(s)) ELSE s
Rev(s) == [i \in 1..Len(s) |-> s[Len(s) + 1 - i]]

\* ------------------------------------------------------------- the calls
Call(op, w) == [op |-> op, threw |-> w.threw]

\* The code never reads the number of an address: it only follows pointers and
\* compares them with each other and with nullptr.  Two heaps that differ by a
\* renaming of the addresses are therefore one program state, and the model
\* keeps one of them: after each call the addresses are renumbered in the
\* order in which the objects' pointers reach them (a's chain, a's tail, b's
\* chain, b's tail), the others keeping their order.
RECURSIVE Visit(_, _, _, _)
Visit(nx, seen, p, fuel) ==
    IF p \notin DOMAIN nx \/ fuel = 0 \/ (\E i \in 1..Len(seen) : seen[i] = p)
    THEN seen
    ELSE Visit(nx, Append(seen, p), nx[p], fuel - 1)

RECURSIVE VisitRest(_, _)
VisitRest(seen, rest) ==
    IF rest = {} THEN seen
    ELSE LET p == CHOOSE q \in rest : \A r \in rest : q <= r
         IN  VisitRest(Append(seen, p), rest \ {p})

Order(w) ==
    LET s1 == Visit(w.next, <<>>, w.head["a"], Fuel(w))
        s2 == Visit(w.next, s1, w.tail["a"], Fuel(w))
        s3 == Visit(w.next, s2, w.head["b"], Fuel(w))
        s4 == Visit(w.next, s3, w.tail["b"], Fuel(w))
    IN  VisitRest(s4, Live(w) \ Range(s4))

Renumber(w) ==
    LET ord == Order(w)
        n   == Len(ord)
        pos == [p \in Live(w) |-> CHOOSE i \in 1..n : ord[i] = p]
        ren(p) == IF p \in Live(w) THEN pos[p] ELSE p
    IN  IF \A i \in 1..n : ord[i] = i THEN w
        ELSE [w EXCEPT !.data = [i \in 1..n |-> w.data[ord[i]]],
                       !.next = [i \in 1..n |-> ren(w.next[ord[i]])],
                       !.head = [x \in Objects |-> ren(w.head[x])],
                       !.tail = [x \in Objects |-> ren(w.tail[x])]]

Commit(w) ==
    \E c \in {Renumber(w)} :
        /\ data' = c.data
        /\ next' = c.next
        /\ head_' = c.head
        /\ tail_' = c.tail
        /\ size_' = c.size
        /\ fault' = c.fault
        /\ UNCHANGED <<tvars, svars>>

\* What the ghost counts: +1 for an insertion that did not raise, -1 for a
\* removal that did not raise.
Count(x, w, d) == net' = [net EXCEPT ![x] = IF w.threw THEN @ ELSE @ + d]
Rebase(newabs) == net' = [x \in Objects |-> Len(newabs[x])]

Api(x) == mode = "api" /\ ~fault /\ exists[x]
Room(n) == Cardinality(DOMAIN next) + n <= MaxNodes

PushFront(x, v) ==
    /\ Api(x) /\ Room(1)
    /\ \E w \in {push_front(World, x, v)} :
           /\ Commit(w)
           /\ last' = Call("push_front", w)
           /\ Count(x, w, 1)
    /\ abs' = [abs EXCEPT ![x] = <<v>> \o @]
    /\ UNCHANGED <<mode, pc, exists>>

PushBack(x, v) ==
    /\ Api(x) /\ Room(1)
    /\ \E w \in {push_back(World, x, v)} :
           /\ Commit(w)
           /\ last' = Call("push_back", w)
           /\ Count(x, w, 1)
    /\ abs' = [abs EXCEPT ![x] = Append(@, v)]
    /\ UNCHANGED <<mode, pc, exists>>

PopFront(x) ==
    /\ Api(x)
    /\ \E w \in {pop_front(World, x)} :
           /\ Commit(w)
           /\ last' = Call("pop_front", w)
           /\ Count(x, w, -1)
    /\ abs' = [abs EXCEPT ![x] = AbsErase(@, 0)]
    /\ UNCHANGED <<mode, pc, exists>>

PopBack(x) ==
    /\ Api(x)
    /\ \E w \in {pop_back(World, x)} :
           /\ Commit(w)
           /\ last' = Call("pop_back", w)
           /\ Count(x, w, -1)
    /\ abs' = [abs EXCEPT ![x] = IF Len(@) = 0 THEN @ ELSE AbsErase(@, Len(@) - 1)]
    /\ UNCHANGED <<mode, pc, exists>>

Insert(x, index, v) ==
    /\ Api(x) /\ (Room(1) \/ index > size_[x])
    /\ \E w \in {insert(World, x, index, v)} :
           /\ Commit(w)
           /\ last' = Call("insert", w)
           /\ Count(x, w, 1)
    /\ abs' = [abs EXCEPT ![x] = AbsInsert(@, index, v)]
    /\ UNCHANGED <<mode, pc, exists>>

Erase(x, index) ==
    /\ Api(x)
    /\ \E w \in {erase(World, x, index)} :
           /\ Commit(w)
           /\ last' = Call("erase", w)
           /\ Count(x, w, -1)
    /\ abs' = [abs EXCEPT ![x] = AbsErase(@, index)]
    /\ UNCHANGED <<mode, pc, exists>>

Clear(x) ==
    /\ Api(x)
    /\ \E w \in {clear(World, x)} :
           /\ Commit(w)
           /\ last' = Call("clear", w)
    /\ abs' = [abs EXCEPT ![x] = <<>>]
    /\ net' = [net EXCEPT ![x] = @ - Len(abs[x])]
    /\ UNCHANGED <<mode, pc, exists>>

Reverse(x) ==
    /\ Api(x)
    /\ \E w \in {reverse(World, x)} :
           /\ Commit(w)
           /\ last' = Call("reverse", w)
    /\ abs' = [abs EXCEPT ![x] = Rev(@)]
    /\ UNCHANGED <<mode, pc, exists, net>>

DefaultCtor(x) ==
    /\ mode = "api" /\ ~fault /\ ~exists[x]
    /\ \E w \in {LinkedList(World, x)} :
           /\ Commit(w)
           /\ last' = Call("ctor", w)
    /\ exists' = [exists EXCEPT ![x] = TRUE]
    /\ abs' = [abs EXCEPT ![x] = <<>>]
    /\ Rebase(abs')
    /\ UNCHANGED <<mode, pc>>

CopyCtor(x, other) ==
    /\ mode = "api" /\ ~fault /\ ~exists[x] /\ exists[other]
    /\ Room(size_[other])
    /\ \E w \in {copy_ctor(World, x, other)} :
           /\ Commit(w)
           /\ last' = Call("copy_ctor", w)
    /\ exists' = [exists EXCEPT ![x] = TRUE]
    /\ abs' = [abs EXCEPT ![x] = abs[other]]
    /\ Rebase(abs')
    /\ UNCHANGED <<mode, pc>>

MoveCtor(x, other) ==
    /\ mode = "api" /\ ~fault /\ ~exists[x] /\ exists[other]
    /\ \E w \in {move_ctor(World, x, other)} :
           /\ Commit(w)
           /\ last' = Call("move_ctor", w)
    /\ exists' = [exists EXCEPT ![x] = TRUE]
    /\ abs' = [abs EXCEPT ![x] = abs[other], ![other] = <<>>]
    /\ Rebase(abs')
    /\ UNCHANGED <<mode, pc>>

CopyAssign(x, other) ==
    /\ Api(x) /\ exists[other]
    /\ x = other \/ Room(size_[other] - size_[x])
    /\ \E w \in {copy_assign(World, x, other)} :
           /\ Commit(w)
           /\ last' = Call("copy_assign", w)
    /\ abs' = [abs EXCEPT ![x] = abs[other]]
    /\ Rebase(abs')
    /\ UNCHANGED <<mode, pc, exists>>

MoveAssign(x, other) ==
    /\ Api(x) /\ exists[other]
    /\ \E w \in {move_assign(World, x, other)} :
           /\ Commit(w)
           /\ last' = Call("move_assign", w)
    /\ abs' = IF x = other THEN abs
              ELSE [abs EXCEPT ![x] = abs[other], ![other] = <<>>]
    /\ Rebase(abs')
    /\ UNCHANGED <<mode, pc, exists>>

Dtor(x) ==
    /\ Api(x)
    /\ LET w == dtor(World, x)
           \* The object is gone: its members are no longer storage of the program.
           w1 == [w EXCEPT !.head[x] = Null, !.tail[x] = Null, !.size[x] = 0]
       IN  /\ Commit(w1)
           /\ last' = Call("dtor", w)
    /\ exists' = [exists EXCEPT ![x] = FALSE]
    /\ abs' = [abs EXCEPT ![x] = <<>>]
    /\ Rebase(abs')
    /\ UNCHANGED <<mode, pc>>

\* ---------------------------------------------------- demoLinkedList
\* LinkedList(std::initializer_list<T> init): LinkedList(), then push_back
\* of each item.
RECURSIVE init_ctor(_, _, _, _)
init_ctor(w, x, init, i) ==
    IF i > Len(init) \/ w.fault THEN w
    ELSE init_ctor(push_back(IF i = 1 THEN LinkedList(w, x) ELSE w, x, init[i]),
                   x, init, i + 1)

Demo(k) == mode = "demo" /\ ~fault /\ pc = k

DemoCtor ==
    /\ Demo(0)
    /\ \E w \in {init_ctor(World, "a", DemoInit, 1)} :
           /\ Commit(w)
           /\ last' = Call("init_ctor", w)
    /\ exists' = [exists EXCEPT !["a"] = TRUE]
    /\ abs' = [abs EXCEPT !["a"] = DemoInit]
    /\ Rebase(abs')
    /\ pc' = 1
    /\ UNCHANGED mode

DemoPushFront ==
    /\ Demo(1)
    /\ \E w \in {push_front(World, "a", DemoFront)} :
           /\ Commit(w)
           /\ last' = Call("push_front", w)
           /\ Count("a", w, 1)
    /\ abs' = [abs EXCEPT !["a"] = <<DemoFront>> \o @]
    /\ pc' = 2
    /\ UNCHANGED <<mode, exists>>

DemoPushBack ==
    /\ Demo(2)
    /\ \E w \in {push_back(World, "a", DemoBack)} :
           /\ Commit(w)
           /\ last' = Call("push_back", w)
           /\ Count("a", w, 1)
    /\ abs' = [abs EXCEPT !["a"] = Append(@, DemoBack)]
    /\ pc' = 3
    /\ UNCHANGED <<mode, exists>>

DemoInsert ==
    /\ Demo(3)
    /\ \E w \in {insert(World, "a", DemoIndex, DemoValue)} :
           /\ Commit(w)
           /\ last' = Call("insert", w)
           /\ Count("a", w, 1)
    /\ abs' = [abs EXCEPT !["a"] = AbsInsert(@, DemoIndex, DemoValue)]
    /\ pc' = 4
    /\ UNCHANGED <<mode, exists>>

DemoReverse ==
    /\ Demo(4)
    /\ \E w \in {reverse(World, "a")} :
           /\ Commit(w)
           /\ last' = Call("reverse", w)
    /\ abs' = [abs EXCEPT !["a"] = Rev(@)]
    /\ pc' = 5
    /\ UNCHANGED <<mode, exists, net>>

\* The indexes a call may be given; the actions draw the ones up to one past
\* the end, every larger one raising as that one does.
Indexes == 0..(MaxNodes + 1)
Near(x) == 0..(size_[x] + 1)

ListInit ==
    /\ mode \in {"api", "demo"}
    /\ pc = 0
    /\ data = <<>>
    /\ next = <<>>
    /\ head_ = [x \in Objects |-> Null]
    /\ tail_ = [x \in Objects |-> Null]
    /\ size_ = [x \in Objects |-> 0]
    /\ exists = [x \in Objects |-> mode = "api" /\ x = "a"]
    /\ fault = FALSE
    /\ abs = [x \in Objects |-> <<>>]
    /\ net = [x \in Objects |-> 0]
    /\ last = [op |-> "none", threw |-> FALSE]

ListNext ==
    \/ \E x \in Objects, v \in Values : PushFront(x, v)
    \/ \E x \in Objects, v \in Values : PushBack(x, v)
    \/ \E x \in Objects : PopFront(x)
    \/ \E x \in Objects : PopBack(x)
    \/ \E x \in Objects, v \in Values : \E i \in Near(x) : Insert(x, i, v)
    \/ \E x \in Objects : \E i \in Near(x) : Erase(x, i)
    \/ \E x \in Objects : Clear(x)
    \/ \E x \in Objects : Reverse(x)
    \/ \E x \in Objects : DefaultCtor(x)
    \/ \E x \in Objects : \E o \in Objects \ {x} : CopyCtor(x, o)
    \/ \E x \in Objects : \E o \in Objects \ {x} : MoveCtor(x, o)
    \/ \E x \in Objects, o \in Objects : CopyAssign(x, o)
    \/ \E x \in Objects, o \in Objects : MoveAssign(x, o)
    \/ \E x \in Objects : Dtor(x)
    \/ DemoCtor
    \/ DemoPushFront
    \/ DemoPushBack
    \/ DemoInsert
    \/ DemoReverse


\* ====================================================== BinarySearchTree
Trees == {"t", "u"}
TValues == 1..MaxTVal

TreeWorld ==
    [data |-> tdata, left |-> tleft, right |-> tright,
     root |-> root_, size |-> tsize_, fault |-> tfault # "none"]

TLive(w) == DOMAIN w.data
TBad(w, p) == p \notin TLive(w)

TAlloc(w) ==
    CHOOSE p \in 1..(Cardinality(TLive(w)) + 1) :
        p \notin TLive(w) /\ \A q \in 1..(p - 1) : q \in TLive(w)

\* new Node(value): data(value), left(nullptr), right(nullptr)
new_TNode(w, p, value) ==
    LET ext(f, e) == [q \in TLive(w) \cup {p} |-> IF q = p THEN e ELSE f[q]]
    IN  [w EXCEPT !.data = ext(w.data, value),
                  !.left = ext(w.left, Null),
                  !.right = ext(w.right, Null)]

\* delete p: the node is gone, and every pointer that still holds p is
\* invalid from here on.
delete_TNode(w, p) ==
    IF TBad(w, p) THEN Flt(w)
    ELSE LET inv(q) == IF q = p THEN Dangling ELSE q
             rest == TLive(w) \ {p}
         IN  [w EXCEPT !.data = [q \in rest |-> w.data[q]],
                       !.left = [q \in rest |-> inv(w.left[q])],
                       !.right = [q \in rest |-> inv(w.right[q])],
                       !.root = [x \in Trees |-> inv(w.root[x])]]

\* What a helper returns: the heap it leaves and the pointer it returns.
Ret(w, p) == [w |-> w, ret |-> p]

\* Node* insert(Node* node, const T& value)
RECURSIVE insert_node(_, _, _, _)
insert_node(w, x, node, value) ==
    IF w.fault THEN Ret(w, node)
    ELSE IF node = Null
    THEN LET p == TAlloc(w)
         IN  Ret(new_TNode([w EXCEPT !.size[x] = (@ + 1) % SizeMod], p, value), p)
    ELSE IF TBad(w, node) THEN Ret(Flt(w), node)
    ELSE IF value < w.data[node]
    THEN LET r == insert_node(w, x, w.left[node], value)
         IN  IF r.w.fault \/ TBad(r.w, node) THEN Ret(Flt(r.w), node)
             ELSE Ret([r.w EXCEPT !.left[node] = r.ret], node)
    ELSE IF value > w.data[node]
    THEN LET r == insert_node(w, x, w.right[node], value)
         IN  IF r.w.fault \/ TBad(r.w, node) THEN Ret(Flt(r.w), node)
             ELSE Ret([r.w EXCEPT !.right[node] = r.ret], node)
    ELSE Ret(w, node)

\* A findMin that returns the node it is given.
findMin_NoDescent(w, node) ==
    IF node = Null THEN [ret |-> Null, fault |-> FALSE]
    ELSE [ret |-> node, fault |-> TBad(w, node)]

\* while (node && node->left) node = node->left; return node;
RECURSIVE findMin(_, _)
findMin(w, node) ==
    IF node = Null THEN [ret |-> Null, fault |-> FALSE]
    ELSE IF TBad(w, node) THEN [ret |-> node, fault |-> TRUE]
    ELSE IF w.left[node] # Null THEN findMin(w, w.left[node])
    ELSE [ret |-> node, fault |-> FALSE]

\* A findMax that returns the node it is given.
findMax_NoDescent(w, node) ==
    IF node = Null THEN [ret |-> Null, fault |-> FALSE]
    ELSE [ret |-> node, fault |-> TBad(w, node)]

\* while (node && node->right) node = node->right; return node;
RECURSIVE findMax(_, _)
findMax(w, node) ==
    IF node = Null THEN [ret |-> Null, fault |-> FALSE]
    ELSE IF TBad(w, node) THEN [ret |-> node, fault |-> TRUE]
    ELSE IF w.right[node] # Null THEN findMax(w, w.right[node])
    ELSE [ret |-> node, fault |-> FALSE]

\* Node* remove(Node* node, const T& value)
RECURSIVE remove_node(_, _, _, _)
\* A remove that deletes the successor and does not copy its value.
remove_node_KeepsValue(w, x, node, value) ==
    IF w.fault THEN Ret(w, node)
    ELSE IF node = Null THEN Ret(w, Null)
    ELSE IF TBad(w, node) THEN Ret(Flt(w), node)
    ELSE IF value < w.data[node]
    THEN LET r == remove_node(w, x, w.left[node], value)
         IN  IF r.w.fault \/ TBad(r.w, node) THEN Ret(Flt(r.w), node)
             ELSE Ret([r.w EXCEPT !.left[node] = r.ret], node)
    ELSE IF value > w.data[node]
    THEN LET r == remove_node(w, x, w.right[node], value)
         IN  IF r.w.fault \/ TBad(r.w, node) THEN Ret(Flt(r.w), node)
             ELSE Ret([r.w EXCEPT !.right[node] = r.ret], node)
    ELSE IF w.left[node] = Null
    THEN LET temp == w.right[node]
             w1 == delete_TNode(w, node)
         IN  Ret([w1 EXCEPT !.size[x] = (@ - 1) % SizeMod], temp)
    ELSE IF w.right[node] = Null
    THEN LET temp == w.left[node]
             w1 == delete_TNode(w, node)
         IN  Ret([w1 EXCEPT !.size[x] = (@ - 1) % SizeMod], temp)
    ELSE LET temp == findMin(w, w.right[node])
         IN  IF temp.fault \/ TBad(w, temp.ret) THEN Ret(Flt(w), node)
             ELSE LET w1 == w
                      r  == remove_node(w1, x, w1.right[node], w1.data[temp.ret])
                  IN  IF r.w.fault \/ TBad(r.w, node) THEN Ret(Flt(r.w), node)
                      ELSE Ret([r.w EXCEPT !.right[node] = r.ret], node)

remove_node(w, x, node, value) ==
    IF w.fault THEN Ret(w, node)
    ELSE IF node = Null THEN Ret(w, Null)
    ELSE IF TBad(w, node) THEN Ret(Flt(w), node)
    ELSE IF value < w.data[node]
    THEN LET r == remove_node(w, x, w.left[node], value)
         IN  IF r.w.fault \/ TBad(r.w, node) THEN Ret(Flt(r.w), node)
             ELSE Ret([r.w EXCEPT !.left[node] = r.ret], node)
    ELSE IF value > w.data[node]
    THEN LET r == remove_node(w, x, w.right[node], value)
         IN  IF r.w.fault \/ TBad(r.w, node) THEN Ret(Flt(r.w), node)
             ELSE Ret([r.w EXCEPT !.right[node] = r.ret], node)
    ELSE IF w.left[node] = Null
    THEN LET temp == w.right[node]
             w1 == delete_TNode(w, node)
         IN  Ret([w1 EXCEPT !.size[x] = (@ - 1) % SizeMod], temp)
    ELSE IF w.right[node] = Null
    THEN LET temp == w.left[node]
             w1 == delete_TNode(w, node)
         IN  Ret([w1 EXCEPT !.size[x] = (@ - 1) % SizeMod], temp)
    ELSE LET temp == findMin(w, w.right[node])
         IN  IF temp.fault \/ TBad(w, temp.ret) THEN Ret(Flt(w), node)
             ELSE LET w1 == [w EXCEPT !.data[node] = w.data[temp.ret]]
                      r  == remove_node(w1, x, w1.right[node], w1.data[temp.ret])
                  IN  IF r.w.fault \/ TBad(r.w, node) THEN Ret(Flt(r.w), node)
                      ELSE Ret([r.w EXCEPT !.right[node] = r.ret], node)

\* bool search(Node* node, const T& value)
RECURSIVE search(_, _, _)
\* A search that looks at the node it is given and no further.
search_RootOnly(w, node, value) ==
    node # Null /\ ~TBad(w, node) /\ value = w.data[node]

search(w, node, value) ==
    IF node = Null \/ TBad(w, node) THEN FALSE
    ELSE IF value = w.data[node] THEN TRUE
    ELSE IF value < w.data[node] THEN search(w, w.left[node], value)
    ELSE search(w, w.right[node], value)

\* int height(Node* node)
RECURSIVE height_node(_, _)
\* A height that counts nodes, not edges.
height_node_CountsNodes(w, node) ==
    IF node = Null \/ TBad(w, node) THEN 0
    ELSE 1 + Max(height_node(w, w.left[node]), height_node(w, w.right[node]))

height_node(w, node) ==
    IF node = Null \/ TBad(w, node) THEN -1
    ELSE 1 + Max(height_node(w, w.left[node]), height_node(w, w.right[node]))

\* void clear(Node* node): left subtree, right subtree, then the node.
RECURSIVE clear_node(_, _)
clear_node(w, node) ==
    IF w.fault \/ node = Null THEN w
    ELSE IF TBad(w, node) THEN Flt(w)
    ELSE LET w1 == clear_node(w, w.left[node])
         IN  IF w1.fault \/ TBad(w1, node) THEN Flt(w1)
             ELSE LET w2 == clear_node(w1, w1.right[node])
                  IN  IF w2.fault THEN w2 ELSE delete_TNode(w2, node)

\* bool isValidBST(Node* node, const T* minVal, const T* maxVal); NoVal is
\* the null bound.  No tree that is asked has a deleted node.
RECURSIVE isValidBST(_, _, _, _)
\* A check that hands each child only its parent's value as a bound.
isValidBST_ParentOnly(w, node, minVal, maxVal) ==
    IF node = Null THEN TRUE
    ELSE IF TBad(w, node) THEN FALSE
    ELSE IF \/ (minVal # NoVal /\ w.data[node] <= minVal)
            \/ (maxVal # NoVal /\ w.data[node] >= maxVal)
    THEN FALSE
    ELSE /\ isValidBST(w, w.left[node], NoVal, w.data[node])
         /\ isValidBST(w, w.right[node], w.data[node], NoVal)

isValidBST(w, node, minVal, maxVal) ==
    IF node = Null THEN TRUE
    ELSE IF TBad(w, node) THEN FALSE
    ELSE IF \/ (minVal # NoVal /\ w.data[node] <= minVal)
            \/ (maxVal # NoVal /\ w.data[node] >= maxVal)
    THEN FALSE
    ELSE /\ isValidBST(w, w.left[node], minVal, w.data[node])
         /\ isValidBST(w, w.right[node], w.data[node], maxVal)

\* void inorder(Node* node, std::vector<T>& result)
RECURSIVE inorder(_, _)
\* An inorder that lists the node before its left subtree.
inorder_SelfFirst(w, node) ==
    IF node = Null \/ TBad(w, node) THEN <<>>
    ELSE <<w.data[node]>> \o inorder(w, w.left[node]) \o inorder(w, w.right[node])

inorder(w, node) ==
    IF node = Null \/ TBad(w, node) THEN <<>>
    ELSE inorder(w, w.left[node]) \o <<w.data[node]>> \o inorder(w, w.right[node])

\* void preorder(Node* node, std::vector<T>& result)
RECURSIVE preorder(_, _)
preorder(w, node) ==
    IF node = Null \/ TBad(w, node) THEN <<>>
    ELSE <<w.data[node]>> \o preorder(w, w.left[node]) \o preorder(w, w.right[node])

\* void postorder(Node* node, std::vector<T>& result)
RECURSIVE postorder(_, _)
postorder(w, node) ==
    IF node = Null \/ TBad(w, node) THEN <<>>
    ELSE postorder(w, w.left[node]) \o postorder(w, w.right[node]) \o <<w.data[node]>>

\* while (!q.empty()) { current = q.front(); q.pop();
\*     result.push_back(current->data);
\*     if (current->left) q.push(current->left);
\*     if (current->right) q.push(current->right); }
RECURSIVE levelLoop(_, _, _)
\* A loop that puts the children at the front of the queue.
levelLoop_Stack(w, q, result) ==
    IF q = <<>> \/ TBad(w, Head(q)) THEN result
    ELSE LET current == Head(q)
             l == IF w.left[current] # Null THEN <<w.left[current]>> ELSE <<>>
             r == IF w.right[current] # Null THEN <<w.right[current]>> ELSE <<>>
         IN  levelLoop(w, l \o r \o Tail(q), Append(result, w.data[current]))

levelLoop(w, q, result) ==
    IF q = <<>> \/ TBad(w, Head(q)) THEN result
    ELSE LET current == Head(q)
             l == IF w.left[current] # Null THEN <<w.left[current]>> ELSE <<>>
             r == IF w.right[current] # Null THEN <<w.right[current]>> ELSE <<>>
         IN  levelLoop(w, Tail(q) \o l \o r, Append(result, w.data[current]))

\* BinarySearchTree() : root_(nullptr), size_(0)
BinarySearchTree(w, x) == [w EXCEPT !.root[x] = Null, !.size[x] = 0]

\* An insert that drops what the helper returns.
bst_insert_DropsRoot(w, x, value) == insert_node(w, x, w.root[x], value).w

\* void insert(const T& value) { root_ = insert(root_, value); }
bst_insert(w, x, value) ==
    LET r == insert_node(w, x, w.root[x], value)
    IN  IF r.w.fault THEN r.w ELSE [r.w EXCEPT !.root[x] = r.ret]

\* A remove that drops what the helper returns.
bst_remove_DropsRoot(w, x, value) == remove_node(w, x, w.root[x], value).w

\* void remove(const T& value) { root_ = remove(root_, value); }
bst_remove(w, x, value) ==
    LET r == remove_node(w, x, w.root[x], value)
    IN  IF r.w.fault THEN r.w ELSE [r.w EXCEPT !.root[x] = r.ret]

\* BinarySearchTree(std::initializer_list<T> init) : BinarySearchTree()
\* { for (const auto& item : init) insert(item); }
RECURSIVE insertAll(_, _, _, _)
insertAll(w, x, init, i) ==
    IF i > Len(init) THEN w
    ELSE insertAll(bst_insert(w, x, init[i]), x, init, i + 1)

bst_init_ctor(w, x, init) == insertAll(BinarySearchTree(w, x), x, init, 1)

\* void clear() { clear(root_); root_ = nullptr; size_ = 0; }
bst_clear(w, x) ==
    LET w1 == clear_node(w, w.root[x])
    IN  IF w1.fault THEN w1 ELSE [w1 EXCEPT !.root[x] = Null, !.size[x] = 0]

\* int height() const { return height(root_); }
height(w, x) == height_node(w, w.root[x])

\* std::optional<T>: empty, or holding a value.
nullopt == [has |-> FALSE, value |-> NoVal, fault |-> FALSE]
optional(v) == [has |-> TRUE, value |-> v, fault |-> FALSE]

\* Node* min = findMin(root_);
\* return min ? std::optional<T>(min->data) : std::nullopt;
minimum(w, x) ==
    LET min == findMin(w, w.root[x])
    IN  IF min.fault THEN [nullopt EXCEPT !.fault = TRUE]
        ELSE IF min.ret # Null THEN optional(w.data[min.ret]) ELSE nullopt

maximum(w, x) ==
    LET max == findMax(w, w.root[x])
    IN  IF max.fault THEN [nullopt EXCEPT !.fault = TRUE]
        ELSE IF max.ret # Null THEN optional(w.data[max.ret]) ELSE nullopt

\* bool empty() const { return size_ == 0; }
bst_empty(w, x) == w.size[x] = 0
\* size_t size() const { return size_; }
bst_size(w, x) == w.size[x]
\* bool contains(const T& value) const { return search(root_, value); }
bst_contains(w, x, value) == search(w, w.root[x], value)

\* bool isValid() const { return isValidBST(root_, nullptr, nullptr); }
isValid(w, x) == isValidBST(w, w.root[x], NoVal, NoVal)
inorderTraversal(w, x) == inorder(w, w.root[x])

preorderTraversal(w, x) == preorder(w, w.root[x])
postorderTraversal(w, x) == postorder(w, w.root[x])
\* if (!root_) return result; q.push(root_); ...
levelOrderTraversal(w, x) ==
    IF w.root[x] = Null THEN <<>> ELSE levelLoop(w, <<w.root[x]>>, <<>>)

\* The class declares a destructor and no copy or move operation of its own:
\* the compiler's copy constructor and copy assignment copy root_ and size_,
\* and a move, having no move operation to call, is that copy.
bst_copy_ctor(w, x, other) ==
    [w EXCEPT !.root[x] = w.root[other], !.size[x] = w.size[other]]
bst_copy_assign(w, x, other) ==
    [w EXCEPT !.root[x] = w.root[other], !.size[x] = w.size[other]]
bst_move_ctor(w, x, other) == bst_copy_ctor(w, x, other)
bst_move_assign(w, x, other) == bst_copy_assign(w, x, other)

\* ~BinarySearchTree() { clear(); }
bst_dtor(w, x) == bst_clear(w, x)

\* ------------------------------------------------------------ observation
\* The nodes that the links from p lead to.
RECURSIVE Subtree(_, _)
Subtree(w, p) ==
    IF p = Null \/ TBad(w, p) THEN {}
    ELSE {p} \cup Subtree(w, w.left[p]) \cup Subtree(w, w.right[p])

TNodesIn(w, x) == Subtree(w, w.root[x])
TNodesOf(x) == TNodesIn(TreeWorld, x)
SubtreeValues(w, p) == {w.data[q] : q \in Subtree(w, p)}

\* The node the comparison descent for v ends at, or Null.
RECURSIVE Descend(_, _, _)
Descend(w, p, v) ==
    IF p = Null \/ TBad(w, p) THEN Null
    ELSE IF v < w.data[p] THEN Descend(w, w.left[p], v)
    ELSE IF v > w.data[p] THEN Descend(w, w.right[p], v)
    ELSE p

\* The case remove(v) meets.
RemoveCase(w, x, v) ==
    LET p == Descend(w, w.root[x], v)
    IN  IF p = Null THEN "absent"
        ELSE IF w.left[p] = Null /\ w.right[p] = Null THEN "leaf"
        ELSE IF w.left[p] = Null \/ w.right[p] = Null THEN "one child"
        ELSE "two children"

InsertCase(w, x, v) ==
    IF Descend(w, w.root[x], v) = Null THEN "new" ELSE "duplicate"

\* ------------------------------------------------------------ renumbering
\* The code never reads an address as a number: the nodes are renumbered in
\* the order a preorder walk from t's root, then from u's, reaches them, the
\* others keeping their order.
RECURSIVE TVisit(_, _, _)
TVisit(w, seen, p) ==
    IF TBad(w, p) \/ (\E i \in 1..Len(seen) : seen[i] = p) THEN seen
    ELSE TVisit(w, TVisit(w, Append(seen, p), w.left[p]), w.right[p])

TOrder(w) ==
    LET s1 == TVisit(w, <<>>, w.root["t"])
        s2 == TVisit(w, s1, w.root["u"])
    IN  VisitRest(s2, TLive(w) \ Range(s2))

TRenumber(w) ==
    LET ord == TOrder(w)
        n   == Len(ord)
        pos == [p \in TLive(w) |-> CHOOSE i \in 1..n : ord[i] = p]
        ren(p) == IF p \in TLive(w) THEN pos[p] ELSE p
    IN  IF \A i \in 1..n : ord[i] = i THEN w
        ELSE [w EXCEPT !.data = [i \in 1..n |-> w.data[ord[i]]],
                       !.left = [i \in 1..n |-> ren(w.left[ord[i]])],
                       !.right = [i \in 1..n |-> ren(w.right[ord[i]])],
                       !.root = [x \in Trees |-> ren(w.root[x])]]

\* A call with undefined behaviour crashes or goes on, as the build has it;
\* nothing is known of the program after either.
TCommit(w) ==
    \E c \in {TRenumber(w)} :
        /\ tdata' = c.data
        /\ tleft' = c.left
        /\ tright' = c.right
        /\ root_' = c.root
        /\ tsize_' = c.size
        /\ tfault' \in (IF c.fault THEN {"crash", "goes on"} ELSE {"none"})
        /\ UNCHANGED <<lvars, svars>>

TApi(x) == tfault = "none" /\ texists[x]
TCall(op, case) == [op |-> op, case |-> case]

\* ---------------------------------------------------------------- actions
\* cap: the most nodes allocated at a time, and the most a size_ counts.
Within(w, cap) ==
    /\ Cardinality(TLive(w)) <= cap
    /\ \A y \in Trees : w.size[y] <= cap

TInsert(x, v, cap) ==
    /\ TApi(x)
    /\ \E w \in {bst_insert(TreeWorld, x, v)} : Within(w, cap) /\ TCommit(w)
    /\ tlast' = TCall("insert", InsertCase(TreeWorld, x, v))
    /\ UNCHANGED texists

TRemove(x, v, cap) ==
    /\ TApi(x)
    /\ \E w \in {bst_remove(TreeWorld, x, v)} : Within(w, cap) /\ TCommit(w)
    /\ tlast' = TCall("remove", RemoveCase(TreeWorld, x, v))
    /\ UNCHANGED texists

TClear(x) ==
    /\ TApi(x)
    /\ \E w \in {bst_clear(TreeWorld, x)} : TCommit(w)
    /\ tlast' = TCall("clear", "")
    /\ UNCHANGED texists

TDefaultCtor(x) ==
    /\ tfault = "none" /\ ~texists[x]
    /\ \E w \in {BinarySearchTree(TreeWorld, x)} : TCommit(w)
    /\ texists' = [texists EXCEPT ![x] = TRUE]
    /\ tlast' = TCall("BinarySearchTree", "")
    /\ UNCHANGED tabs

TCopyCtor(x, other) ==
    /\ TApi(other) /\ ~texists[x]
    /\ \E w \in {bst_copy_ctor(TreeWorld, x, other)} : TCommit(w)
    /\ texists' = [texists EXCEPT ![x] = TRUE]
    /\ tlast' = TCall("copy_ctor", other)
    /\ UNCHANGED tabs

TMoveCtor(x, other) ==
    /\ TApi(other) /\ ~texists[x]
    /\ \E w \in {bst_move_ctor(TreeWorld, x, other)} : TCommit(w)
    /\ texists' = [texists EXCEPT ![x] = TRUE]
    /\ tlast' = TCall("move_ctor", other)
    /\ UNCHANGED tabs

TCopyAssign(x, other) ==
    /\ TApi(x) /\ TApi(other)
    /\ \E w \in {bst_copy_assign(TreeWorld, x, other)} : TCommit(w)
    /\ tlast' = TCall("copy_assign", IF x = other THEN "self" ELSE other)
    /\ UNCHANGED texists
    /\ UNCHANGED tabs

TMoveAssign(x, other) ==
    /\ TApi(x) /\ TApi(other)
    /\ \E w \in {bst_move_assign(TreeWorld, x, other)} : TCommit(w)
    /\ tlast' = TCall("move_assign", IF x = other THEN "self" ELSE other)
    /\ UNCHANGED texists
    /\ UNCHANGED tabs

\* The object is gone: nothing reads its members again.
TDtor(x) ==
    /\ TApi(x)
    /\ \E w \in {bst_dtor(TreeWorld, x)} :
           TCommit([w EXCEPT !.root[x] = Null, !.size[x] = 0])
    /\ texists' = [texists EXCEPT ![x] = FALSE]
    /\ tlast' = TCall("dtor", "")
    /\ UNCHANGED tabs

\* examples/main.cpp, demoBST: the tree is constructed from the initializer
\* list, and 30 is removed from it.
DemoTreeInit == <<50, 30, 70, 20, 40, 60, 80>>
DemoRemoved == 30

TDemoCtor ==
    /\ tfault = "none" /\ tlast = TCall("BinarySearchTree", "")
    /\ \E w \in {bst_init_ctor(TreeWorld, "t", DemoTreeInit)} : TCommit(w)
    /\ tlast' = TCall("demo", "constructed")
    /\ UNCHANGED texists
    /\ tabs' = [tabs EXCEPT !["t"] = Range(DemoTreeInit)]

TDemoRemove ==
    /\ tfault = "none" /\ tlast = TCall("demo", "constructed")
    /\ \E w \in {bst_remove(TreeWorld, "t", DemoRemoved)} : TCommit(w)
    /\ tlast' = TCall("demo", "removed")
    /\ UNCHANGED texists
    /\ tabs' = [tabs EXCEPT !["t"] = @ \ {DemoRemoved}]

\* One tree, t, constructed empty.
TreeInit ==
    /\ tdata = <<>> /\ tleft = <<>> /\ tright = <<>>
    /\ root_ = [x \in Trees |-> Null]
    /\ tsize_ = [x \in Trees |-> 0]
    /\ texists = [x \in Trees |-> x = "t"]
    /\ tfault = "none"
    /\ tlast = TCall("BinarySearchTree", "")
    /\ tabs = [x \in Trees |-> {}]

\* The calls on the one tree, with the ghost set that follows them.
SetInsert(v) ==
    /\ TInsert("t", v, MaxTVal)
    /\ tabs' = [tabs EXCEPT !["t"] = @ \cup {v}]

SetRemove(v) ==
    /\ TRemove("t", v, MaxTVal)
    /\ tabs' = [tabs EXCEPT !["t"] = @ \ {v}]

SetClear ==
    /\ TClear("t")
    /\ tabs' = [tabs EXCEPT !["t"] = {}]

\* The calls on either of two trees; the ghost set is not kept here.
CopyInsert(x, v) == TInsert(x, v, MaxCopyNodes) /\ UNCHANGED tabs
CopyRemove(x, v) == TRemove(x, v, MaxCopyNodes) /\ UNCHANGED tabs
CopyClear(x) == TClear(x) /\ UNCHANGED tabs

TreeNext ==
    \/ \E v \in TValues : SetInsert(v)
    \/ \E v \in TValues : SetRemove(v)
    \/ SetClear
    \/ TDemoCtor
    \/ TDemoRemove

\* Every binary tree of n nodes, its nodes numbered from b + 1 in preorder.
RECURSIVE Shapes(_, _)
Shapes(n, b) ==
    IF n = 0 THEN {[root |-> Null, left |-> <<>>, right |-> <<>>]}
    ELSE UNION {
        {[root |-> b + 1,
          left |-> ((b + 1) :> l.root) @@ l.left @@ r.left,
          right |-> ((b + 1) :> r.root) @@ l.right @@ r.right] :
             l \in Shapes(k, b + 1), r \in Shapes(n - 1 - k, b + 1 + k)} :
        k \in 0..(n - 1)}

\* A tree of any shape and any values, as no sequence of calls need build.
ShapeInit ==
    /\ \E n \in 0..MaxShapeNodes : \E sh \in Shapes(n, 0) :
       \E d \in [1..n -> 1..MaxShapeVal] :
           /\ tdata = d
           /\ tleft = [i \in 1..n |-> sh.left[i]]
           /\ tright = [i \in 1..n |-> sh.right[i]]
           /\ root_ = [x \in Trees |-> IF x = "t" THEN sh.root ELSE Null]
           /\ tsize_ = [x \in Trees |-> IF x = "t" THEN n ELSE 0]
           /\ tabs = [x \in Trees |-> IF x = "t" THEN Range(d) ELSE {}]
    /\ texists = [x \in Trees |-> x = "t"]
    /\ tfault = "none"
    /\ tlast = TCall("shape", "")

\* isValid() is const: it returns its answer and writes nothing.
TIsValid ==
    /\ TApi("t") /\ tlast = TCall("shape", "")
    /\ TCommit(TreeWorld)
    /\ tlast' = TCall("isValid", IF isValid(TreeWorld, "t") THEN "true" ELSE "false")
    /\ UNCHANGED texists
    /\ UNCHANGED tabs

ShapeNext == TIsValid

TreeCopyNext ==
    \/ \E x \in Trees : \E v \in 1..MaxCopyNodes : CopyInsert(x, v)
    \/ \E x \in Trees : \E v \in 1..MaxCopyNodes : CopyRemove(x, v)
    \/ \E x \in Trees : CopyClear(x)
    \/ \E x \in Trees : TDefaultCtor(x)
    \/ \E x \in Trees : \E other \in Trees \ {x} : TCopyCtor(x, other)
    \/ \E x \in Trees : \E other \in Trees \ {x} : TMoveCtor(x, other)
    \/ \E x \in Trees : \E other \in Trees : TCopyAssign(x, other)
    \/ \E x \in Trees : \E other \in Trees : TMoveAssign(x, other)
    \/ \E x \in Trees : TDtor(x)

\* =============================================================== Sorting
\* examples/main.cpp, demoSorting.
DemoArr == <<64, 34, 25, 12, 22, 11, 90, 45>>

Comparators == {"less", "greater"}
\* comp(a, b): a must come before b.
comp(c, a, b) == IF c = "less" THEN a.key < b.key ELSE a.key > b.key

\* arr[k] of the code, whose indexes start at 0.
Elem(arr, k) == arr[k + 1]
InRange(arr, k) == 0 <= k /\ k < Len(arr)
Put(arr, k, e) == [arr EXCEPT ![k + 1] = e]
\* std::swap(arr[i], arr[j])
swap(arr, i, j) == [arr EXCEPT ![i + 1] = arr[j + 1], ![j + 1] = arr[i + 1]]

Ok(arr) == [arr |-> arr, fault |-> FALSE]
OutOfRange(arr) == [arr |-> arr, fault |-> TRUE]

\* for (size_t j = 0; j < n - i - 1; ++j)
\*     if (comp(arr[j + 1], arr[j])) { swap; swapped = true; }
RECURSIVE bubbleInner(_, _, _, _, _, _)
bubbleInner(arr, c, n, i, j, swapped) ==
    IF j < (n - i - 1) % SizeMod
    THEN IF ~InRange(arr, j + 1) \/ ~InRange(arr, j)
         THEN [arr |-> arr, fault |-> TRUE, swapped |-> swapped]
         ELSE IF comp(c, Elem(arr, j + 1), Elem(arr, j))
         THEN bubbleInner(swap(arr, j, j + 1), c, n, i, j + 1, TRUE)
         ELSE bubbleInner(arr, c, n, i, j + 1, swapped)
    ELSE [arr |-> arr, fault |-> FALSE, swapped |-> swapped]

\* for (size_t i = 0; i < n - 1; ++i) { ...; if (!swapped) break; }
RECURSIVE bubbleOuter(_, _, _, _)
bubbleOuter(arr, c, n, i) ==
    IF i < (n - 1) % SizeMod
    THEN LET r == bubbleInner(arr, c, n, i, 0, FALSE)
         IN  IF r.fault THEN OutOfRange(r.arr)
             ELSE IF ~r.swapped THEN Ok(r.arr)
             ELSE bubbleOuter(r.arr, c, n, i + 1)
    ELSE Ok(arr)

bubbleSort(arr, c) == bubbleOuter(arr, c, Len(arr), 0)

\* for (size_t j = i + 1; j < n; ++j) if (comp(arr[j], arr[minIdx])) minIdx = j;
\* -1: an element outside the vector was read.
RECURSIVE selectMin(_, _, _, _, _)
selectMin(arr, c, n, j, minIdx) ==
    IF j < n
    THEN IF ~InRange(arr, j) \/ ~InRange(arr, minIdx) THEN -1
         ELSE selectMin(arr, c, n, j + 1,
                        IF comp(c, Elem(arr, j), Elem(arr, minIdx)) THEN j
                        ELSE minIdx)
    ELSE minIdx

RECURSIVE selectionOuter(_, _, _, _)
selectionOuter(arr, c, n, i) ==
    IF i < (n - 1) % SizeMod
    THEN LET minIdx == selectMin(arr, c, n, i + 1, i)
         IN  IF minIdx = -1 THEN OutOfRange(arr)
             ELSE IF minIdx # i
             THEN IF ~InRange(arr, i) \/ ~InRange(arr, minIdx)
                  THEN OutOfRange(arr)
                  ELSE selectionOuter(swap(arr, i, minIdx), c, n, i + 1)
             ELSE selectionOuter(arr, c, n, i + 1)
    ELSE Ok(arr)

selectionSort(arr, c) == selectionOuter(arr, c, Len(arr), 0)

\* How often the body of bubbleSort's outer loop is entered: once per i below
\* the wrapped n - 1, up to the pass that swaps nothing or leaves the vector.
RECURSIVE bubbleOuterRuns(_, _, _, _)
bubbleOuterRuns(arr, c, n, i) ==
    IF i < (n - 1) % SizeMod
    THEN LET r == bubbleInner(arr, c, n, i, 0, FALSE)
         IN  IF r.fault \/ ~r.swapped THEN 1
             ELSE 1 + bubbleOuterRuns(r.arr, c, n, i + 1)
    ELSE 0

\* How often the body of selectionSort's outer loop is entered: it has no
\* break, so once per i below the wrapped n - 1.
RECURSIVE selectionOuterRuns(_, _, _, _)
selectionOuterRuns(arr, c, n, i) ==
    IF i < (n - 1) % SizeMod
    THEN LET minIdx == selectMin(arr, c, n, i + 1, i)
         IN  IF minIdx = -1 THEN 1
             ELSE IF minIdx # i
             THEN IF ~InRange(arr, i) \/ ~InRange(arr, minIdx) THEN 1
                  ELSE 1 + selectionOuterRuns(swap(arr, i, minIdx), c, n, i + 1)
             ELSE 1 + selectionOuterRuns(arr, c, n, i + 1)
    ELSE 0

\* while (j >= 0 && comp(key, arr[j])) { arr[j + 1] = arr[j]; --j; }
\* arr[j + 1] = key;
RECURSIVE insertionShift_PastEqual(_, _, _, _)
insertionShift_PastEqual(arr, c, key, j) ==
    IF j >= 0 /\ ~comp(c, Elem(arr, j), key)
    THEN insertionShift_PastEqual(Put(arr, j + 1, Elem(arr, j)), c, key, j - 1)
    ELSE Put(arr, j + 1, key)

RECURSIVE insertionShift(_, _, _, _)
insertionShift(arr, c, key, j) ==
    IF j >= 0 /\ comp(c, key, Elem(arr, j))
    THEN insertionShift(Put(arr, j + 1, Elem(arr, j)), c, key, j - 1)
    ELSE Put(arr, j + 1, key)

\* for (size_t i = 1; i < arr.size(); ++i) { T key = arr[i]; ... }
RECURSIVE insertionOuter(_, _, _)
insertionOuter(arr, c, i) ==
    IF i < Len(arr)
    THEN insertionOuter(insertionShift(arr, c, Elem(arr, i), i - 1), c, i + 1)
    ELSE arr

insertionSort(arr, c) == Ok(insertionOuter(arr, c, 1))

\* detail::merge: the first loop takes arr[i] when comp(arr[i], arr[j]) and
\* arr[j] otherwise; the two loops after it copy what is left of either run.
RECURSIVE mergeLoop(_, _, _, _, _, _, _)
mergeLoop(arr, c, i, mid, j, right, temp) ==
    IF i <= mid /\ j <= right
    THEN IF comp(c, Elem(arr, i), Elem(arr, j))
         THEN mergeLoop(arr, c, i + 1, mid, j, right, Append(temp, Elem(arr, i)))
         ELSE mergeLoop(arr, c, i, mid, j + 1, right, Append(temp, Elem(arr, j)))
    ELSE IF i <= mid
    THEN mergeLoop(arr, c, i + 1, mid, j, right, Append(temp, Elem(arr, i)))
    ELSE IF j <= right
    THEN mergeLoop(arr, c, i, mid, j + 1, right, Append(temp, Elem(arr, j)))
    ELSE temp

\* for (int p = 0; p < k; ++p) arr[left + p] = temp[p];
merge(arr, left, mid, right, c) ==
    LET temp == mergeLoop(arr, c, left, mid, mid + 1, right, <<>>)
    IN  [q \in 1..Len(arr) |->
            IF left + 1 <= q /\ q <= left + Len(temp) THEN temp[q - left]
            ELSE arr[q]]

RECURSIVE detail_mergeSort(_, _, _, _)
detail_mergeSort(arr, left, right, c) ==
    IF left < right
    THEN LET mid == left + (right - left) \div 2
             a1 == detail_mergeSort(arr, left, mid, c)
             a2 == detail_mergeSort(a1, mid + 1, right, c)
         IN  merge(a2, left, mid, right, c)
    ELSE arr

mergeSort(arr, c) ==
    Ok(IF Len(arr) > 1 THEN detail_mergeSort(arr, 0, Len(arr) - 1, c) ELSE arr)

\* detail::partition: the loop over j, then the pivot swapped into i + 1.
RECURSIVE partitionLoop(_, _, _, _, _, _)
partitionLoop(arr, c, pivot, i, j, high) ==
    IF j < high
    THEN IF comp(c, Elem(arr, j), pivot)
         THEN partitionLoop(swap(arr, i + 1, j), c, pivot, i + 1, j + 1, high)
         ELSE partitionLoop(arr, c, pivot, i, j + 1, high)
    ELSE [arr |-> arr, i |-> i]

\* A partition that returns i + 1 and leaves the pivot at arr[high].
partition_PivotLeftBehind(arr, low, high, c) ==
    LET r == partitionLoop(arr, c, Elem(arr, high), low - 1, low, high)
    IN  [arr |-> r.arr, pi |-> r.i + 1]

partition(arr, low, high, c) ==
    LET r == partitionLoop(arr, c, Elem(arr, high), low - 1, low, high)
    IN  [arr |-> swap(r.arr, r.i + 1, high), pi |-> r.i + 1]

RECURSIVE detail_quickSort(_, _, _, _)
detail_quickSort(arr, low, high, c) ==
    IF low < high
    THEN LET p  == partition(arr, low, high, c)
             a1 == detail_quickSort(p.arr, low, p.pi - 1, c)
         IN  detail_quickSort(a1, p.pi + 1, high, c)
    ELSE arr

quickSort(arr, c) ==
    Ok(IF Len(arr) > 1 THEN detail_quickSort(arr, 0, Len(arr) - 1, c) ELSE arr)

\* A sift-down that stops after one level.
heapify_OneLevel(arr, n, i, c) ==
    LET left  == 2 * i + 1
        right == 2 * i + 2
        l1 == IF left < n /\ comp(c, Elem(arr, i), Elem(arr, left))
              THEN left ELSE i
        largest == IF right < n /\ comp(c, Elem(arr, l1), Elem(arr, right))
                   THEN right ELSE l1
    IN  IF largest # i THEN swap(arr, i, largest) ELSE arr

RECURSIVE heapify(_, _, _, _)
heapify(arr, n, i, c) ==
    LET left  == 2 * i + 1
        right == 2 * i + 2
        l1 == IF left < n /\ comp(c, Elem(arr, i), Elem(arr, left))
              THEN left ELSE i
        largest == IF right < n /\ comp(c, Elem(arr, l1), Elem(arr, right))
                   THEN right ELSE l1
    IN  IF largest # i THEN heapify(swap(arr, i, largest), n, largest, c)
        ELSE arr

\* for (int i = n / 2 - 1; i >= 0; --i) heapify(arr, n, i, comp);
RECURSIVE heapBuild(_, _, _, _)
heapBuild(arr, n, i, c) ==
    IF i >= 0 THEN heapBuild(heapify(arr, n, i, c), n, i - 1, c) ELSE arr

\* for (int i = n - 1; i > 0; --i) { swap(arr[0], arr[i]); heapify(arr, i, 0, comp); }
RECURSIVE heapExtract(_, _, _)
heapExtract(arr, i, c) ==
    IF i > 0 THEN heapExtract(heapify(swap(arr, 0, i), i, 0, c), i - 1, c)
    ELSE arr

heapSort(arr, c) ==
    LET n == Len(arr)
    IN  Ok(heapExtract(heapBuild(arr, n, n \div 2 - 1, c), n - 1, c))

\* for (size_t i = 1; i < arr.size(); ++i) if (comp(arr[i], arr[i - 1])) return false;
isSorted(arr, c) ==
    \A i \in 1..(Len(arr) - 1) : ~comp(c, Elem(arr, i), Elem(arr, i - 1))

\* ------------------------------------------------------------- the calls
\* A vector of keys, each element tagged with the index it starts at.
Tag(keys) == [i \in 1..Len(keys) |-> [key |-> keys[i], id |-> i]]
Inputs ==
    {Tag(k) : k \in UNION {[1..n -> 1..MaxKey] : n \in 0..MaxSortLen}}
    \cup {Tag(DemoArr)}

\* A call that stays inside the vector returns what it computed.  One that
\* does not has undefined behaviour: the build decides whether it crashes or
\* returns, and a call that returns leaves a vector of the same length.
Return(algo, r) ==
    /\ salgo' = algo
    /\ sout' = r.arr
    /\ sfault' = r.fault
    /\ sphase' \in (IF r.fault THEN {"done", "crashed"} ELSE {"done"})
    /\ UNCHANGED <<scomp, sin, sloc, lvars, tvars>>

RunBubbleSort ==
    sphase = "input" /\ Return("bubbleSort", bubbleSort(sin, scomp))
RunSelectionSort ==
    sphase = "input" /\ Return("selectionSort", selectionSort(sin, scomp))
RunInsertionSort ==
    sphase = "input" /\ Return("insertionSort", insertionSort(sin, scomp))
RunMergeSort ==
    sphase = "input" /\ Return("mergeSort", mergeSort(sin, scomp))
RunQuickSort ==
    sphase = "input" /\ Return("quickSort", quickSort(sin, scomp))
RunHeapSort ==
    sphase = "input" /\ Return("heapSort", heapSort(sin, scomp))

NoLocals == [low |-> 0, high |-> 0, i |-> 0, ret |-> 0]

SortIdle ==
    /\ sphase = "idle" /\ salgo = "none" /\ scomp = "less"
    /\ sin = <<>> /\ sout = <<>> /\ sfault = FALSE
    /\ sloc = NoLocals

SortInit ==
    /\ sphase = "input" /\ salgo = "none"
    /\ scomp \in Comparators
    /\ sin \in Inputs
    /\ sout = <<>> /\ sfault = FALSE
    /\ sloc = NoLocals

SortNext ==
    \/ RunBubbleSort
    \/ RunSelectionSort
    \/ RunInsertionSort
    \/ RunMergeSort
    \/ RunQuickSort
    \/ RunHeapSort

\* A call of detail::partition on its own, with the arguments quickSort can
\* give it: 0 <= low < high < arr.size().
RunPartition(low, high) ==
    /\ sphase = "input"
    /\ 0 <= low /\ low < high /\ high < Len(sin)
    /\ \E p \in {partition(sin, low, high, scomp)} :
           /\ sout' = p.arr
           /\ sloc' = [sloc EXCEPT !.low = low, !.high = high, !.ret = p.pi]
    /\ salgo' = "partition"
    /\ sphase' = "done"
    /\ UNCHANGED <<scomp, sin, sfault, lvars, tvars>>

PartitionNext ==
    \E low \in 0..(MaxSortLen - 1) : \E high \in 0..(MaxSortLen - 1) :
        RunPartition(low, high)

\* heapSort, one iteration of its loops at a time.  sout is arr and sloc.i
\* the loop variable; sphase is "build" in the first loop and "extract" in
\* the second, each seen where the loop tests its condition.
\* int n = static_cast<int>(arr.size()); int i = n / 2 - 1;
HeapSortCall ==
    /\ sphase = "input"
    /\ sphase' = "build"
    /\ salgo' = "heapSort"
    /\ sout' = sin
    /\ sloc' = [sloc EXCEPT !.i = Len(sin) \div 2 - 1]
    /\ UNCHANGED <<scomp, sin, sfault, lvars, tvars>>

\* i >= 0: detail::heapify(arr, n, i, comp); --i
HeapBuildStep ==
    /\ sphase = "build" /\ sloc.i >= 0
    /\ sout' = heapify(sout, Len(sout), sloc.i, scomp)
    /\ sloc' = [sloc EXCEPT !.i = @ - 1]
    /\ UNCHANGED <<sphase, salgo, scomp, sin, sfault, lvars, tvars>>

\* The first loop is left; int i = n - 1.
HeapBuildDone ==
    /\ sphase = "build" /\ ~(sloc.i >= 0)
    /\ sphase' = "extract"
    /\ sloc' = [sloc EXCEPT !.i = Len(sout) - 1]
    /\ UNCHANGED <<salgo, scomp, sin, sout, sfault, lvars, tvars>>

\* i > 0: std::swap(arr[0], arr[i]); detail::heapify(arr, i, 0, comp); --i
HeapExtractStep ==
    /\ sphase = "extract" /\ sloc.i > 0
    /\ sout' = heapify(swap(sout, 0, sloc.i), sloc.i, 0, scomp)
    /\ sloc' = [sloc EXCEPT !.i = @ - 1]
    /\ UNCHANGED <<sphase, salgo, scomp, sin, sfault, lvars, tvars>>

HeapSortReturn ==
    /\ sphase = "extract" /\ ~(sloc.i > 0)
    /\ sphase' = "done"
    /\ UNCHANGED <<salgo, scomp, sin, sout, sfault, sloc, lvars, tvars>>

HeapNext ==
    \/ HeapSortCall
    \/ HeapBuildStep
    \/ HeapBuildDone
    \/ HeapExtractStep
    \/ HeapSortReturn

\* The list as the api actions find it: one empty object.
ListIdle ==
    /\ mode = "api" /\ pc = 0 /\ data = <<>> /\ next = <<>>
    /\ head_ = [x \in Objects |-> Null]
    /\ tail_ = [x \in Objects |-> Null]
    /\ size_ = [x \in Objects |-> 0]
    /\ exists = [x \in Objects |-> x = "a"]
    /\ fault = FALSE
    /\ abs = [x \in Objects |-> <<>>]
    /\ net = [x \in Objects |-> 0]
    /\ last = [op |-> "none", threw |-> FALSE]

\* ====================================================== the specifications
\* Each specification runs one part of the library; the other parts stay as
\* they are constructed.
InitList == ListInit /\ TreeInit /\ SortIdle
InitTree == TreeInit /\ ListIdle /\ SortIdle
InitSort == SortInit /\ ListIdle /\ TreeInit
InitShape == ShapeInit /\ ListIdle /\ SortIdle

SpecList == InitList /\ [][ListNext]_vars
SpecTree == InitTree /\ [][TreeNext]_vars
SpecTreeCopy == InitTree /\ [][TreeCopyNext]_vars
SpecSort == InitSort /\ [][SortNext]_vars
SpecShape == InitShape /\ [][ShapeNext]_vars
SpecPartition == InitSort /\ [][PartitionNext]_vars
SpecHeap == InitSort /\ [][HeapNext]_vars

\* ================================================= LinkedList: the claims
Exist == {x \in Objects : exists[x]}
Same(r) ==
    /\ r.data = data /\ r.next = next /\ r.head = head_ /\ r.tail = tail_
    /\ r.size = size_ /\ r.fault = fault

\* C1: in every state the calls reach, failing calls included, size() is the
\* number of nodes on the chain from head_, the chain ends at a null link,
\* tail_ is the node of the chain whose next is null, and head_ and tail_ are
\* null exactly when the list is empty.
ListShape(x) ==
    LET c == ChainOf(x)
    IN  /\ EndsIn(World, x)
        /\ size_[x] = Len(c)
        /\ (head_[x] = Null) <=> (size_[x] = 0)
        /\ (tail_[x] = Null) <=> (size_[x] = 0)
        /\ Len(c) > 0 => tail_[x] = c[Len(c)] /\ next[tail_[x]] = Null
C1_StructuralInvariant == \A x \in Exist : ListShape(x)

\* A pop_back has left two nodes, the second of them the new tail.
C1_Witness ==
    /\ last = [op |-> "pop_back", threw |-> FALSE]
    /\ size_["a"] = 2
    /\ tail_["a"] = ChainOf("a")[2]
    /\ tail_["a"] # head_["a"]

\* C2: the list agrees with the abstract sequence: size() is the number of
\* insertions that succeeded minus that of the removals that succeeded,
\* front-to-back iteration gives the abstract sequence, and the demo's three
\* insertions into {10,20,30,40,50} give {5,10,20,25,30,40,50,60}.
DemoExpected == <<5, 10, 20, 25, 30, 40, 50, 60>>
C2_AgreesWithSequence ==
    /\ \A x \in Exist : Contents(x) = abs[x] /\ size_[x] = net[x]
    /\ mode = "demo" /\ pc = 4 => Contents("a") = DemoExpected /\ size_["a"] = 8

C2_Witness ==
    /\ mode = "demo" /\ pc = 4
    /\ last = [op |-> "insert", threw |-> FALSE]
    /\ abs["a"] = DemoExpected

\* C9: pop_front, pop_back, front and back raise exactly when size() is 0,
\* insert exactly when index > size(), erase and at exactly when
\* index >= size().
C9_ErrorConditions ==
    \A x \in Exist :
        /\ pop_front(World, x).threw <=> (size_[x] = 0)
        /\ pop_back(World, x).threw <=> (size_[x] = 0)
        /\ front(World, x).threw <=> (size_[x] = 0)
        /\ back(World, x).threw <=> (size_[x] = 0)
        /\ \A i \in Indexes :
            /\ \A v \in Values : insert(World, x, i, v).threw <=> (i > size_[x])
            /\ erase(World, x, i).threw <=> (i >= size_[x])
            /\ at(World, x, i).threw <=> (i >= size_[x])

\* An insert has raised on a list of two, where insert at 2 appends and
\* insert at 3 raises, erase and at raise at 2 and not at 1.
C9_Witness ==
    /\ last = [op |-> "insert", threw |-> TRUE]
    /\ size_["a"] = 2
    /\ ContentsIn(insert(World, "a", 2, 1), "a") = Append(Contents("a"), 1)
    /\ insert(World, "a", 3, 1).threw
    /\ erase(World, "a", 2).threw /\ ~erase(World, "a", 1).threw
    /\ at(World, "a", 2).threw /\ ~at(World, "a", 1).threw

\* C10: a pop_front, pop_back, insert or erase that raises leaves the nodes,
\* their contents, head_, tail_ and size_ as they were.
C10_NoPartialFailure ==
    \A x \in Exist :
        /\ pop_front(World, x).threw => Same(pop_front(World, x))
        /\ pop_back(World, x).threw => Same(pop_back(World, x))
        /\ \A i \in Indexes :
            /\ \A v \in Values :
                insert(World, x, i, v).threw => Same(insert(World, x, i, v))
            /\ erase(World, x, i).threw => Same(erase(World, x, i))

\* An erase has raised on a list of two, which is still the abstract list.
C10_Witness ==
    /\ last = [op |-> "erase", threw |-> TRUE]
    /\ size_["a"] = 2
    /\ Contents("a") = abs["a"]
    /\ erase(World, "a", 2).threw

\* C8, as the spec has it: a copy (self-assignment included) leaves the target
\* with the source's sequence in nodes of its own, none of them a node of the
\* source; a move leaves the target with the source's former sequence and the
\* source empty; and a later change of one list leaves the other one alone.
CopyPost(r, x, other) ==
    /\ ContentsIn(r, x) = Contents(other)
    /\ Range(ChainIn(r, x)) \cap Range(ChainIn(r, other)) = {}
    /\ r.size[x] = size_[other]
    /\ ~r.fault /\ ~r.threw
MovePost(r, x, other) ==
    /\ ContentsIn(r, x) = Contents(other)
    /\ r.size[x] = size_[other]
    /\ r.size[other] = 0 /\ r.head[other] = Null /\ r.tail[other] = Null
    /\ ~r.fault /\ ~r.threw
\* The object y is the same after r: the same nodes with the same contents.
Kept(r, y) ==
    /\ ChainIn(r, y) = ChainOf(y)
    /\ ContentsIn(r, y) = Contents(y)
    /\ r.head[y] = head_[y] /\ r.tail[y] = tail_[y] /\ r.size[y] = size_[y]
Mutations(x) ==
    {pop_front(World, x), pop_back(World, x), clear(World, x),
     reverse(World, x), dtor(World, x)}
    \cup {push_front(World, x, v) : v \in Values}
    \cup {push_back(World, x, v) : v \in Values}
    \cup {insert(World, x, i, v) : i \in Indexes, v \in Values}
    \cup {erase(World, x, i) : i \in Indexes}
Independent ==
    \A x \in Exist : \A y \in Exist \ {x} :
        /\ NodesOf(x) \cap NodesOf(y) = {}
        /\ \A r \in Mutations(x) : Kept(r, y)
C8_Original ==
    /\ \A x \in Exist : \A other \in Exist :
        /\ CopyPost(copy_assign(World, x, other), x, other)
        /\ MovePost(move_assign(World, x, other), x, other)
    /\ \A x \in Objects \ Exist : \A other \in Exist :
        /\ CopyPost(copy_ctor(World, x, other), x, other)
        /\ MovePost(move_ctor(World, x, other), x, other)
    /\ Independent

\* C8, amended: the above for a copy or a move from another object, the
\* source of a copy keeping its nodes; an assignment of a list to itself
\* changes nothing.
C8_ValueSemantics ==
    /\ \A x \in Exist : \A other \in Exist \ {x} :
        /\ CopyPost(copy_assign(World, x, other), x, other)
        /\ Kept(copy_assign(World, x, other), other)
        /\ MovePost(move_assign(World, x, other), x, other)
    /\ \A x \in Exist :
        /\ Same(copy_assign(World, x, x)) /\ ~copy_assign(World, x, x).threw
        /\ Same(move_assign(World, x, x)) /\ ~move_assign(World, x, x).threw
    /\ \A x \in Objects \ Exist : \A other \in Exist :
        /\ CopyPost(copy_ctor(World, x, other), x, other)
        /\ Kept(copy_ctor(World, x, other), other)
        /\ MovePost(move_ctor(World, x, other), x, other)
    /\ Independent

\* b has been copy-constructed from a list of two: the same sequence, in two
\* nodes of its own.
C8_Witness ==
    /\ last = [op |-> "copy_ctor", threw |-> FALSE]
    /\ exists["a"] /\ exists["b"]
    /\ size_["a"] = 2 /\ size_["b"] = 2
    /\ Contents("a") = Contents("b")
    /\ Cardinality(NodesOf("a") \cup NodesOf("b")) = 4

\* What front() or back() gives: whether it raised, and the element if not.
Got(r) == [threw |-> r.threw, ret |-> r.ret]

\* C11: in every reachable state, one reverse() gives the reversed order,
\* with front() and back() exchanged and size() unchanged; a second one gives
\* back the order, front() and back() the list started with.
C11_ReverseTwice ==
    \A x \in Exist :
        \E r1 \in {reverse(World, x)} : \E r2 \in {reverse(r1, x)} :
            /\ ~r1.fault /\ ~r1.threw /\ ~r2.fault /\ ~r2.threw
            /\ ContentsIn(r1, x) = Rev(Contents(x))
            /\ r1.size[x] = size_[x]
            /\ Got(front(r1, x)) = Got(back(World, x))
            /\ Got(back(r1, x)) = Got(front(World, x))
            /\ ContentsIn(r2, x) = Contents(x)
            /\ r2.size[x] = size_[x]
            /\ Got(front(r2, x)) = Got(front(World, x))
            /\ Got(back(r2, x)) = Got(back(World, x))

\* reverse() has run on a list of three or more that does not read the same
\* in both directions.
C11_Witness ==
    /\ last = [op |-> "reverse", threw |-> FALSE]
    /\ size_["a"] >= 3
    /\ Contents("a") # Rev(Contents("a"))
    /\ front(World, "a").ret # back(World, "a").ret

\* C22: whatever calls were made (push, pop, insert, erase, reverse, clear,
\* copy, move, destruction), none has dereferenced a null or deleted node or
\* deleted a node twice, and none that can follow does; the chain from each
\* head_ visits no node twice and ends at a null link; the nodes allocated
\* and not deleted are exactly the nodes on the chains, each on one chain;
\* and clear() or destruction of a list deletes exactly its chain.
NoRepeat(c) == \A i \in 1..Len(c) : \A j \in (i + 1)..Len(c) : c[i] # c[j]
OnChains(w) == UNION {Range(ChainIn(w, x)) : x \in Objects}
Released(r, x) ==
    /\ ~r.fault /\ ~r.threw
    /\ ChainIn(r, x) = <<>> /\ r.head[x] = Null
    /\ Live(r) = Live(World) \ NodesOf(x)
    /\ OnChains(r) = Live(r)
Transfers(x) ==
    {copy_assign(World, x, o) : o \in Exist}
    \cup {move_assign(World, x, o) : o \in Exist}
C22_NodeLifetime ==
    /\ ~fault
    /\ \A x \in Objects : NoRepeat(ChainOf(x)) /\ EndsIn(World, x)
    /\ \A x \in Objects : \A y \in Objects \ {x} : NodesOf(x) \cap NodesOf(y) = {}
    /\ OnChains(World) = Live(World)
    /\ \A x \in Exist :
        /\ \A r \in Mutations(x) \cup Transfers(x) :
               ~r.fault /\ OnChains(r) = Live(r)
        /\ Released(clear(World, x), x)
        /\ Released(dtor(World, x), x)
    /\ \A x \in Objects \ Exist : \A o \in Exist :
        \A r \in {copy_ctor(World, x, o), move_ctor(World, x, o)} :
            ~r.fault /\ OnChains(r) = Live(r)

\* b has been destroyed while a holds two nodes: they are all that is
\* allocated, and clearing a would release both.
C22_Witness ==
    /\ last = [op |-> "dtor", threw |-> FALSE]
    /\ exists["a"] /\ ~exists["b"]
    /\ size_["a"] = 2
    /\ Cardinality(Live(World)) = 2
    /\ NodesOf("a") = Live(World)
    /\ Live(clear(World, "a")) = {}

\* =========================================== BinarySearchTree: the claims
TExist == {x \in Trees : texists[x]}

\* Every node's value is above all of its left subtree's and below all of
\* its right subtree's.
StrictBST(w, x) ==
    \A n \in TNodesIn(w, x) :
        /\ \A v \in SubtreeValues(w, w.left[n]) : v < w.data[n]
        /\ \A v \in SubtreeValues(w, w.right[n]) : v > w.data[n]

\* C3: after any sequence of insert, remove and clear calls on a tree,
\* isValid() returns true, and the tree has the strict BST property.
C3_ValidAfterMutation ==
    /\ tfault = "none"
    /\ isValid(TreeWorld, "t")
    /\ StrictBST(TreeWorld, "t")

\* remove has replaced the value of a node with two children, in a tree
\* that keeps three nodes or more.
C3_Witness ==
    /\ tlast = TCall("remove", "two children")
    /\ tsize_["t"] >= 3
    /\ Cardinality(TNodesOf("t")) = tsize_["t"]

\* C7: a copy of a tree has nodes of its own, so that no call on one tree
\* reaches the other's nodes and no node is deleted twice; a move leaves its
\* source with no root and size 0.
C7_ValueSemantics ==
    /\ tfault = "none"
    /\ \A x \in TExist : root_[x] # Dangling
    /\ \A x \in TExist : \A y \in TExist \ {x} : TNodesOf(x) \cap TNodesOf(y) = {}
    /\ (tlast.op \in {"copy_ctor", "copy_assign"} /\ tlast.case # "self")
           => \E x \in TExist \ {tlast.case} :
                  inorderTraversal(TreeWorld, x) = inorderTraversal(TreeWorld, tlast.case)
    /\ (tlast.op \in {"move_ctor", "move_assign"} /\ tlast.case # "self")
           => root_[tlast.case] = Null /\ tsize_[tlast.case] = 0

\* Each value is not greater than the next.
Ascending(s) == \A i \in 1..(Len(s) - 1) : s[i] <= s[i + 1]

\* C12: after any sequence of inserts and removes, inorderTraversal() is in
\* ascending order.
C12_InorderAscending ==
    /\ tfault = "none"
    /\ Ascending(inorderTraversal(TreeWorld, "t"))
    /\ Len(inorderTraversal(TreeWorld, "t")) = tsize_["t"]

\* A value has been removed from a tree that keeps four values or more, its
\* root with a subtree on either side.
C12_Witness ==
    /\ tlast.op = "remove" /\ tlast.case # "absent"
    /\ Len(inorderTraversal(TreeWorld, "t")) >= 4
    /\ tleft[root_["t"]] # Null /\ tright[root_["t"]] # Null

\* The values stored in x.
Stored(w, x) == {w.data[q] : q \in TNodesIn(w, x)}

\* The null link the comparison descent for a value not stored ends at: the
\* node that holds it and the side, or the root link.
RECURSIVE NullLink(_, _, _, _, _)
NullLink(w, p, v, parent, side) ==
    IF p = Null THEN [node |-> parent, side |-> side]
    ELSE IF v < w.data[p] THEN NullLink(w, w.left[p], v, p, "left")
    ELSE NullLink(w, w.right[p], v, p, "right")

\* w0 and w agree on everything but x's members and the nodes in changed.
SameBut(w0, w, x, changed) ==
    /\ ~w.fault
    /\ \A y \in Trees \ {x} : w.root[y] = w0.root[y] /\ w.size[y] = w0.size[y]
    /\ \A q \in TLive(w0) \ changed :
           /\ q \in TLive(w)
           /\ w.data[q] = w0.data[q]
           /\ w.left[q] = w0.left[q]
           /\ w.right[q] = w0.right[q]

InsertPost(w0, w, x, v) ==
    IF v \in Stored(w0, x) THEN w = w0
    ELSE \E p \in TLive(w) \ TLive(w0) :
        LET l == NullLink(w0, w0.root[x], v, Null, "root")
        IN  /\ TLive(w) = TLive(w0) \cup {p}
            /\ w.data[p] = v /\ w.left[p] = Null /\ w.right[p] = Null
            /\ w.size[x] = w0.size[x] + 1
            /\ SameBut(w0, w, x, {l.node})
            /\ w.root[x] = IF l.side = "root" THEN p ELSE w0.root[x]
            /\ l.side # "root" =>
                   /\ w.data[l.node] = w0.data[l.node]
                   /\ w.left[l.node] = IF l.side = "left" THEN p ELSE w0.left[l.node]
                   /\ w.right[l.node] = IF l.side = "right" THEN p ELSE w0.right[l.node]

\* C13: insert(v) of a stored value changes nothing; of any other value it
\* attaches one new leaf holding v at the null link the comparison descent
\* reaches, adds 1 to size(), and leaves every other node as it was.
C13_InsertFrame ==
    \A v \in TValues : InsertPost(TreeWorld, bst_insert(TreeWorld, "t", v), "t", v)

\* An insert of a stored value has returned, in a tree of three values or
\* more that a further insert would make deeper.
C13_Witness ==
    /\ tlast = TCall("insert", "duplicate")
    /\ tsize_["t"] >= 3
    /\ \E v \in TValues \ Stored(TreeWorld, "t") :
           LET l == NullLink(TreeWorld, root_["t"], v, Null, "root")
           IN  l.node # root_["t"] /\ l.side = "left"

\* s with every v taken out.
Without(s, v) == SelectSeq(s, LAMBDA e : e # v)
DemoTreeExpected == <<20, 40, 50, 60, 70, 80>>

RemovePost(w0, w, x, v) ==
    IF v \notin Stored(w0, x) THEN w = w0
    ELSE /\ ~w.fault
         /\ inorderTraversal(w, x) = Without(inorderTraversal(w0, x), v)
         /\ Len(inorderTraversal(w, x)) = Len(inorderTraversal(w0, x)) - 1
         /\ w.size[x] = w0.size[x] - 1

\* C14: remove(v) of a value not stored changes nothing; of a stored value,
\* in a leaf, a node with one child or a node with two, it takes exactly v
\* out of inorderTraversal() and 1 off size(); the demo's tree without 30
\* reads 20, 40, 50, 60, 70, 80.
C14_RemoveContract ==
    /\ \A v \in TValues \cup Stored(TreeWorld, "t") :
           RemovePost(TreeWorld, bst_remove(TreeWorld, "t", v), "t", v)
    /\ tlast = TCall("demo", "removed") =>
           inorderTraversal(TreeWorld, "t") = DemoTreeExpected /\ tsize_["t"] = 6

\* The demo has removed 30, a node with two children, from its seven values.
C14_Witness ==
    /\ tlast = TCall("demo", "removed")
    /\ Stored(TreeWorld, "t") = Range(DemoTreeInit) \ {DemoRemoved}
    /\ Cardinality(TNodesOf("t")) = 6

\* The edges from p down to the node that holds v.
RECURSIVE EdgesTo(_, _, _)
EdgesTo(w, p, v) ==
    IF v = w.data[p] THEN 0
    ELSE IF v < w.data[p] THEN 1 + EdgesTo(w, w.left[p], v)
    ELSE 1 + EdgesTo(w, w.right[p], v)

\* The edges on the longest path from the root down; -1 with no root.
LongestPath(w, x) ==
    IF w.root[x] = Null THEN -1
    ELSE LET d == {EdgesTo(w, w.root[x], v) : v \in Stored(w, x)}
         IN  CHOOSE m \in d : \A e \in d : e <= m

\* C15: in every state insert, remove and clear reach, height() is -1 for
\* an empty tree, 0 for a tree of one node, and otherwise 1 more than the
\* greater of the heights of the root's subtrees: the number of edges on the
\* longest path from the root down.
C15_Height ==
    LET h == height(TreeWorld, "t")
        r == root_["t"]
    IN  /\ tsize_["t"] = 0 => h = -1
        /\ tsize_["t"] = 1 => h = 0
        /\ r # Null => h = 1 + Max(height_node(TreeWorld, tleft[r]),
                                   height_node(TreeWorld, tright[r]))
        /\ h = LongestPath(TreeWorld, "t")

\* A removal has left a tree of height 2 whose root has a subtree on either
\* side, one of them a single node.
C15_Witness ==
    /\ tlast.op = "remove" /\ tlast.case # "absent"
    /\ height(TreeWorld, "t") = 2
    /\ tleft[root_["t"]] # Null /\ tright[root_["t"]] # Null
    /\ height_node(TreeWorld, tleft[root_["t"]]) = 0

\* C16: in every state insert, remove and clear reach, minimum() and
\* maximum() are empty exactly when the tree is, and otherwise hold the
\* smallest and the largest value stored.
C16_MinimumMaximum ==
    LET lo == minimum(TreeWorld, "t")
        hi == maximum(TreeWorld, "t")
        st == Stored(TreeWorld, "t")
    IN  /\ ~lo.fault /\ ~hi.fault
        /\ lo.has <=> tsize_["t"] # 0
        /\ hi.has <=> tsize_["t"] # 0
        /\ (tsize_["t"] = 0) <=> (st = {})
        /\ lo.has => lo.value \in st /\ \A v \in st : lo.value <= v
        /\ hi.has => hi.value \in st /\ \A v \in st : v <= hi.value

\* A removal has left a tree whose smallest and largest values are both
\* below the root, the largest two links down.
C16_Witness ==
    /\ tlast.op = "remove" /\ tlast.case # "absent"
    /\ tsize_["t"] >= 4
    /\ minimum(TreeWorld, "t").value < tdata[root_["t"]]
    /\ EdgesTo(TreeWorld, root_["t"], maximum(TreeWorld, "t").value) >= 2

\* Where v is in s.
Pos(s, v) == CHOOSE i \in 1..Len(s) : s[i] = v
\* s lists every stored value of x once.
ListsAll(w, x, s) ==
    /\ Len(s) = w.size[x]
    /\ Range(s) = Stored(w, x)
    /\ Cardinality(Range(s)) = Len(s)
\* In s, every one of as comes before every one of bs.
Before(s, as, bs) == \A a \in as : \A b \in bs : Pos(s, a) < Pos(s, b)

PreorderShape(w, x, s) ==
    \A n \in TNodesIn(w, x) :
        LET ls == SubtreeValues(w, w.left[n])
            rs == SubtreeValues(w, w.right[n])
        IN  Before(s, {w.data[n]}, ls \cup rs) /\ Before(s, ls, rs)

PostorderShape(w, x, s) ==
    \A n \in TNodesIn(w, x) :
        LET ls == SubtreeValues(w, w.left[n])
            rs == SubtreeValues(w, w.right[n])
        IN  Before(s, ls, rs) /\ Before(s, ls \cup rs, {w.data[n]})

\* Depth never falls along s, and nodes of one depth are listed from the left,
\* that is, in the order inorder lists them.
LevelShape(w, x, s) ==
    \A i \in 1..Len(s) : \A j \in (i + 1)..Len(s) :
        LET di == EdgesTo(w, w.root[x], s[i])
            dj == EdgesTo(w, w.root[x], s[j])
        IN  /\ di <= dj
            /\ di = dj => Pos(inorderTraversal(w, x), s[i]) < Pos(inorderTraversal(w, x), s[j])

DemoPreorder == <<50, 30, 20, 40, 70, 60, 80>>
DemoPostorder == <<20, 40, 30, 60, 80, 70, 50>>

\* C17: preorderTraversal, postorderTraversal and levelOrderTraversal each
\* list every stored value once; preorder lists a node before its left
\* subtree and that before its right one; postorder lists the left subtree,
\* the right one, then the node; levelOrder lists the nodes by depth, from
\* the left within a depth, and lists nothing for an empty tree.
C17_Traversals ==
    \E pre \in {preorderTraversal(TreeWorld, "t")} :
    \E post \in {postorderTraversal(TreeWorld, "t")} :
    \E lvl \in {levelOrderTraversal(TreeWorld, "t")} :
        /\ ListsAll(TreeWorld, "t", pre) /\ PreorderShape(TreeWorld, "t", pre)
        /\ ListsAll(TreeWorld, "t", post) /\ PostorderShape(TreeWorld, "t", post)
        /\ ListsAll(TreeWorld, "t", lvl) /\ LevelShape(TreeWorld, "t", lvl)
        /\ root_["t"] = Null => pre = <<>> /\ post = <<>> /\ lvl = <<>>

\* The demo's tree of seven values, where the three orders all differ.
C17_Witness ==
    /\ tlast = TCall("demo", "constructed")
    /\ levelOrderTraversal(TreeWorld, "t") = DemoTreeInit
    /\ preorderTraversal(TreeWorld, "t") = DemoPreorder
    /\ postorderTraversal(TreeWorld, "t") = DemoPostorder

\* The node whose left or right link holds p.
ParentOf(w, p) == CHOOSE q \in TLive(w) : w.left[q] = p \/ w.right[q] = p

\* The removal of v from x, v held by a node n with two children: s is the
\* leftmost node of n's right subtree.
TwoChildPost(w0, w, x, v) ==
    LET n == Descend(w0, w0.root[x], v)
        s == findMin(w0, w0.right[n]).ret
        spliced(q) == IF q = s THEN w0.right[s] ELSE q
    IN  /\ ~w.fault
        /\ TLive(w) = TLive(w0) \ {s}
        /\ w.root = w0.root
        /\ w.size[x] = w0.size[x] - 1
        /\ w.data[n] = w0.data[s]
        /\ w.left[n] = w0.left[n]
        /\ w.right[n] = spliced(w0.right[n])
        /\ \A q \in TLive(w) \ {n} :
               /\ w.data[q] = w0.data[q]
               /\ w.right[q] = w0.right[q]
               /\ w.left[q] = spliced(w0.left[q])
        /\ s # w0.right[n] => ParentOf(w0, s) \in Subtree(w0, w0.right[n])
        /\ w0.left[s] = Null

\* C18: remove(v), v in a node with two children, leaves that node where it
\* is, holding the smallest value of its right subtree; the node that held
\* that value is the one node deleted, its right child taking its place; the
\* node's left subtree and all that is outside its right subtree are as they
\* were.
C18_TwoChildRemoval ==
    \A v \in Stored(TreeWorld, "t") :
        RemoveCase(TreeWorld, "t", v) = "two children" =>
            TwoChildPost(TreeWorld, bst_remove(TreeWorld, "t", v), "t", v)

\* A two-child removal has left four nodes, and a further one is possible:
\* the root has two children, and the smallest value of its right subtree is
\* two links down.
C18_Witness ==
    /\ tlast = TCall("remove", "two children")
    /\ tsize_["t"] = 4
    /\ RemoveCase(TreeWorld, "t", tdata[root_["t"]]) = "two children"
    /\ findMin(TreeWorld, tright[root_["t"]]).ret # tright[root_["t"]]

\* Every child is on the right side of its own parent's value.
LocallyOrdered(w, x) ==
    \A n \in TNodesIn(w, x) :
        /\ w.left[n] # Null => w.data[w.left[n]] < w.data[n]
        /\ w.right[n] # Null => w.data[w.right[n]] > w.data[n]

\* C19: for a tree of any shape and values, isValid() is true exactly when
\* every node's value is above all values of its left subtree and below all
\* values of its right one; the call leaves the tree as it is.
C19_IsValidExact ==
    /\ [](/\ tfault = "none"
          /\ isValid(TreeWorld, "t") <=> StrictBST(TreeWorld, "t")
          /\ tlast.op = "isValid" =>
                 (tlast.case = "true" <=> StrictBST(TreeWorld, "t")))
    /\ [][tlast'.op = "isValid" =>
              UNCHANGED <<tdata, tleft, tright, root_, tsize_>>]_vars

\* isValid() has returned false for a tree of three nodes in which every
\* child is in order with its own parent.
C19_Witness ==
    /\ tlast = TCall("isValid", "false")
    /\ tsize_["t"] = 3
    /\ LocallyOrdered(TreeWorld, "t")
    /\ Cardinality(Stored(TreeWorld, "t")) = 3

\* C20: after any sequence of insert, remove and clear calls, size() is the
\* number of nodes reachable from root_ and the number of values inserted
\* and not since removed; contains(v) is true for exactly those values; and
\* empty() is true exactly when root_ is null.
C20_AgreesWithSet ==
    /\ tfault = "none"
    /\ bst_size(TreeWorld, "t") = Cardinality(TNodesOf("t"))
    /\ bst_size(TreeWorld, "t") = Cardinality(tabs["t"])
    /\ \A v \in TValues \cup Range(DemoTreeInit) :
           bst_contains(TreeWorld, "t", v) <=> v \in tabs["t"]
    /\ bst_empty(TreeWorld, "t") <=> root_["t"] = Null

\* A value has been removed and three stay: contains() is false for some
\* value and true for one that is not at the root.
C20_Witness ==
    /\ tlast.op = "remove" /\ tlast.case # "absent"
    /\ Cardinality(tabs["t"]) = 3
    /\ \E v \in TValues : ~bst_contains(TreeWorld, "t", v)
    /\ \E v \in TValues : bst_contains(TreeWorld, "t", v) /\ v # tdata[root_["t"]]

\* =================================================== Sorting: the claims
Returned == sphase \in {"done", "crashed"}

\* b holds the elements of a, each as often as a does.
Occurrences(arr, e) == Cardinality({i \in 1..Len(arr) : arr[i] = e})
Permutation(a, b) ==
    /\ Len(a) = Len(b)
    /\ \A i \in 1..Len(a) : Occurrences(a, a[i]) = Occurrences(b, a[i])

Keys(arr) == [i \in 1..Len(arr) |-> arr[i].key]
DemoSorted == <<11, 12, 22, 25, 34, 45, 64, 90>>

\* Neither element must come before the other.
Equivalent(c, a, b) == ~comp(c, a, b) /\ ~comp(c, b, a)
\* Equivalent elements are in the order they started in.
Stable(arr, c) ==
    \A i \in 1..Len(arr) : \A j \in (i + 1)..Len(arr) :
        Equivalent(c, arr[i], arr[j]) => arr[i].id < arr[j].id

\* C4: a call of any of the six routines, on any vector (the empty one
\* included) and with either comparator, returns, having stayed inside the
\* vector, and leaves a permutation of the input in which no element must
\* come before its predecessor; bubbleSort of the demo's array leaves
\* 11, 12, 22, 25, 34, 45, 64, 90.
C4_SortsCorrect ==
    Returned =>
        /\ sphase = "done"
        /\ ~sfault
        /\ Permutation(sin, sout)
        /\ isSorted(sout, scomp)
        /\ (salgo = "bubbleSort" /\ scomp = "less" /\ Keys(sin) = DemoArr)
               => Keys(sout) = DemoSorted

\* C5: mergeSort leaves equivalent elements in the order they started in.
C5_MergeSortStable ==
    (sphase = "done" /\ salgo = "mergeSort") => Stable(sout, scomp)

\* C6: insertionSort leaves equivalent elements in the order they started
\* in.
C6_InsertionSortStable ==
    (sphase = "done" /\ salgo = "insertionSort") =>
        /\ ~sfault
        /\ Permutation(sin, sout)
        /\ Stable(sout, scomp)

\* insertionSort has moved an element past others in a vector that holds
\* two equivalent elements.
C6_Witness ==
    /\ sphase = "done" /\ salgo = "insertionSort"
    /\ sout # sin
    /\ \E i \in 1..Len(sin) : \E j \in (i + 1)..Len(sin) :
           Equivalent(scomp, sin[i], sin[j])

\* The outer loop's body is entered by the call that has returned.
OuterRuns ==
    IF salgo = "bubbleSort" THEN bubbleOuterRuns(sin, scomp, Len(sin), 0)
    ELSE selectionOuterRuns(sin, scomp, Len(sin), 0)

\* C21: a call of bubbleSort or selectionSort, on a vector of any length n
\* (0 included, where n - 1 wraps), reads and writes only elements arr[k]
\* with 0 <= k < n, enters the body of its outer loop at most max(n - 1, 0)
\* times, and returns; on the empty vector it reads no element.
C21_IndexSafety ==
    (Returned /\ salgo \in {"bubbleSort", "selectionSort"}) =>
        /\ ~sfault
        /\ sphase = "done"
        /\ OuterRuns <= Max(Len(sin) - 1, 0)

\* C23: a call partition(arr, low, high, comp) with low < high inside the
\* vector returns an index p with low <= p <= high; arr[p] is the element
\* that was at arr[high]; every element of arr[low..p-1] must come before
\* it and none of arr[p+1..high] must; arr[low..high] holds the elements it
\* held before, and the elements outside it are where they were.
Slice(arr, from, to) == [k \in 1..(to - from + 1) |-> Elem(arr, from + k - 1)]
C23_PartitionPost ==
    (sphase = "done" /\ salgo = "partition") =>
        LET low == sloc.low
            high == sloc.high
            p == sloc.ret
            pivot == Elem(sin, high)
        IN  /\ low <= p /\ p <= high
            /\ Len(sout) = Len(sin)
            /\ Elem(sout, p) = pivot
            /\ \A k \in low..(p - 1) : comp(scomp, Elem(sout, k), pivot)
            /\ \A k \in (p + 1)..high : ~comp(scomp, Elem(sout, k), pivot)
            /\ Permutation(Slice(sin, low, high), Slice(sout, low, high))
            /\ \A k \in 0..(Len(sin) - 1) :
                   (k < low \/ k > high) => Elem(sout, k) = Elem(sin, k)

\* partition has run on the middle of a vector of four and put its pivot
\* between an element that must come before it and one that must not,
\* moving elements to do so.
C23_Witness ==
    /\ sphase = "done" /\ salgo = "partition"
    /\ Len(sin) = 4 /\ sloc.low = 1 /\ sloc.high = 3 /\ sloc.ret = 2
    /\ sout # sin
    /\ comp(scomp, Elem(sout, 1), Elem(sout, 2))
    /\ ~comp(scomp, Elem(sout, 3), Elem(sout, 2))

\* arr[0..top] is a heap: no element must come after one of its children.
IsHeap(arr, top, c) ==
    \A k \in 1..top : ~comp(c, Elem(arr, (k - 1) \div 2), Elem(arr, k))
\* arr[from..n-1] is sorted.
SortedFrom(arr, from, c) ==
    \A k \in (from + 1)..(Len(arr) - 1) : ~comp(c, Elem(arr, k), Elem(arr, k - 1))
\* No element of arr[0..top] must come after one of arr[top+1..n-1].
PrefixBeforeSuffix(arr, top, c) ==
    \A k \in 0..top : \A q \in (top + 1)..(Len(arr) - 1) :
        ~comp(c, Elem(arr, q), Elem(arr, k))

\* C24: when heapSort leaves its first loop the whole vector is a heap under
\* comp; whenever its second loop is at its test, with i the loop variable,
\* arr[0..i] is a heap, arr[i+1..n-1] is sorted, and no element of arr[0..i]
\* must come after one of arr[i+1..n-1]; the vector is a permutation of the
\* input throughout, and the loops leave what heapSort returns.
C24_HeapInvariants ==
    /\ (sphase = "extract" /\ sloc.i = Len(sout) - 1) =>
           IsHeap(sout, Len(sout) - 1, scomp)
    /\ sphase = "extract" =>
           /\ IsHeap(sout, sloc.i, scomp)
           /\ SortedFrom(sout, sloc.i + 1, scomp)
           /\ PrefixBeforeSuffix(sout, sloc.i, scomp)
    /\ sphase \in {"build", "extract", "done"} => Permutation(sin, sout)
    /\ sphase = "done" => sout = heapSort(sin, scomp).arr /\ isSorted(sout, scomp)

\* The second loop is at its test with a heap of two and a sorted suffix of
\* two, in a vector of four that did not start as a heap.
C24_Witness ==
    /\ sphase = "extract" /\ salgo = "heapSort"
    /\ Len(sin) = 4 /\ sloc.i = 1
    /\ ~IsHeap(sin, 3, scomp)
    /\ comp(scomp, Elem(sout, 1), Elem(sout, 0))
    /\ comp(scomp, Elem(sout, 2), Elem(sout, 3))

====
